---- MODULE Spec2Model ----
(***************************************************************************)
(* Model of the healthbench-br evaluation pipeline: the response parser    *)
(* (src/dataset/loader.py) and the chunked, concurrent evaluation engine   *)
(* (src/evaluation/evaluator.py).                                          *)
(*                                                                         *)
(* Texts (questions, responses, error messages) are sequences of           *)
(* one-character strings, so that the parser, the error marker and the     *)
(* newline handling are computed rather than assumed.                      *)
(***************************************************************************)
EXTENDS Integers, Sequences, FiniteSets, TLC

(***************************************************************************)
(* Bounds of the model.                                                    *)
(***************************************************************************)
\* longest item sequence handed to Evaluator.evaluate
MaxItems == 4
\* largest configured parallelism
MaxPar == 2
\* largest configured item limit
MaxLimit == 2

(***************************************************************************)
(* Python values.                                                          *)
(***************************************************************************)
\* Python's None, as the value of an Optional[str]
None == "None"

\* an Optional[int]: <<>> is None, <<n>> is the integer n
NoInt == <<>>

Int1(n) == <<n>>

Min(a, b) == IF a < b THEN a ELSE b

Max(a, b) == IF a > b THEN a ELSE b

(***************************************************************************)
(* Texts.                                                                  *)
(***************************************************************************)
LowerOf ==
  [c \in {"V", "E", "R", "D", "A", "I", "O", "F", "L", "S"} |->
     CASE c = "V" -> "v" [] c = "E" -> "e" [] c = "R" -> "r" [] c = "D" -> "d"
       [] c = "A" -> "a" [] c = "I" -> "i" [] c = "O" -> "o" [] c = "F" -> "f"
       [] c = "L" -> "l" [] c = "S" -> "s"]

\* str.lower() on one character
Lower(c) == IF c \in DOMAIN LowerOf THEN LowerOf[c] ELSE c

\* the characters the regex class \w accepts, among those the model uses
WordChars ==
  {"v", "e", "r", "d", "a", "i", "o", "f", "l", "s", "m", "n", "t", "Q",
   "V", "E", "R", "D", "A", "I", "O", "F", "L", "S", "1", "2", "3", "_"}

IsWord(c) == c \in WordChars

\* str.lower() on a text
LowerText(t) == [j \in 1..Len(t) |-> Lower(t[j])]

\* the two alternatives of VER_REGEX, in the order the pattern lists them
Verdadeiro == <<"v", "e", "r", "d", "a", "d", "e", "i", "r", "o">>

Falso == <<"f", "a", "l", "s", "o">>

\* the pattern without its \b: every gap passes
NoWordBoundary(t, pos) == TRUE

\* \b at the gap before position pos (1-based) of text t
WordBoundary(t, pos) ==
  LET before == pos > 1 /\ IsWord(t[pos - 1])
      after == pos <= Len(t) /\ IsWord(t[pos])
  IN before /= after

\* the pattern \b<word>\b with re.IGNORECASE matches t starting at pos
MatchesAt(t, pos, word) ==
  /\ pos + Len(word) - 1 <= Len(t)
  /\ WordBoundary(t, pos)
  /\ \A j \in 1..Len(word) : Lower(t[pos + j - 1]) = word[j]
  /\ WordBoundary(t, pos + Len(word))

\* VER_REGEX.finditer(t) from position pos on: the matched groups, left to
\* right, non-overlapping, the first alternative tried first
RECURSIVE FindIter(_, _)
FindIter(t, pos) ==
  IF pos > Len(t) THEN <<>>
  ELSE IF MatchesAt(t, pos, Verdadeiro)
       THEN <<SubSeq(t, pos, pos + Len(Verdadeiro) - 1)>>
              \o FindIter(t, pos + Len(Verdadeiro))
  ELSE IF MatchesAt(t, pos, Falso)
       THEN <<SubSeq(t, pos, pos + Len(Falso) - 1)>>
              \o FindIter(t, pos + Len(Falso))
  ELSE FindIter(t, pos + 1)

\* the parser taking the first match instead of the last
parse_first_match(text) ==
  LET matches == FindIter(text, 1)
  IN IF Len(matches) = 0 THEN None
     ELSE LET first == LowerText(matches[1])
          IN IF first[1] = "v" THEN "Verdadeiro" ELSE "Falso"

\* ResponseParser.parse_label_from_response; `text or ""` turns a missing
\* text into the empty one, which is what the model passes for it
parse_label_from_response(text) ==
  LET matches == FindIter(text, 1)
  IN IF Len(matches) = 0 THEN None
     ELSE LET last == LowerText(matches[Len(matches)])
          IN IF last[1] = "v" THEN "Verdadeiro" ELSE "Falso"

\* validate_response taking any recognised verdict for a correct one
validate_response_any_verdict(response, expected) ==
  LET predicted == parse_label_from_response(response)
  IN <<predicted, predicted /= None>>

\* ResponseParser.validate_response: <<predicted, is_correct>>
validate_response(response, expected) ==
  LET predicted == parse_label_from_response(response)
      is_correct == IF predicted /= None THEN predicted = expected ELSE FALSE
  IN <<predicted, is_correct>>

(***************************************************************************)
(* Evaluator.evaluate_single, after the provider call has returned.        *)
(***************************************************************************)
\* "[ERRO NA CHAMADA]: "
ErrPrefix ==
  <<"[", "E", "R", "R", "O", " ", "N", "A", " ", "C", "H", "A", "M", "A",
    "D", "A", "]", ":", " ">>

\* f"[ERRO NA CHAMADA]: {e}"
ErrorResponse(msg) == ErrPrefix \o msg

\* the EvaluationResult dataclass
EvaluationResult(item, pred, correta, resposta_bruta) ==
  [arquivo |-> item.arquivo, titulo |-> item.titulo,
   idx_local |-> item.idx_local, pergunta |-> item.pergunta,
   esperado |-> item.esperado, pred |-> pred, correta |-> correta,
   resposta_bruta |-> resposta_bruta]

\* the else branch: the call returned `response`
evaluate_single_ok(item, response) ==
  LET v == validate_response(response, item.esperado)
  IN EvaluationResult(item, v[1], v[2], response)

\* the except branch handing the error marker to the parser
evaluate_single_err_parsed(item, msg) ==
  LET v == validate_response(ErrorResponse(msg), item.esperado)
  IN EvaluationResult(item, v[1], v[2], ErrorResponse(msg))

\* the except branch: the call raised an exception whose text is msg
evaluate_single_err(item, msg) ==
  EvaluationResult(item, None, FALSE, ErrorResponse(msg))

(***************************************************************************)
(* Evaluator.evaluate / evaluate_batch: slicing and chunking.              *)
(***************************************************************************)
\* Python truthiness of an Optional[int]: None and 0 are false
Truthy(n) == n /= NoInt /\ n[1] /= 0

\* the list slice s[:stop] for an integer stop
SliceTo(s, stop) ==
  LET n == Len(s)
      e == IF stop < 0 THEN Max(n + stop, 0) ELSE Min(stop, n)
  IN SubSeq(s, 1, e)

\* evaluate, lines 88-89: `if limit: items = items[:limit]`
ApplyLimit(its, lim) == IF Truthy(lim) THEN SliceTo(its, lim[1]) ELSE its

\* the value i is a member of range(0, n, step), for step /= 0
InRange(idx, n, step) == IF step > 0 THEN idx < n ELSE idx > n

\* the slice taken one item too long, `items[i:i + parallelism + 1]`
BatchIdxTooLong(idx, n, p) ==
  LET lo == IF idx < 0 THEN Max(n + idx, 0) ELSE Min(idx, n)
      hi == IF idx + p + 1 < 0 THEN Max(n + idx + p + 1, 0)
            ELSE Min(idx + p + 1, n)
  IN (lo + 1)..hi

\* the 1-based positions of `items[i:i + parallelism]` in a list of n items
BatchIdx(idx, n, p) ==
  LET lo == IF idx < 0 THEN Max(n + idx, 0) ELSE Min(idx, n)
      hi == IF idx + p < 0 THEN Max(n + idx + p, 0) ELSE Min(idx + p, n)
  IN (lo + 1)..hi

\* `sum(1 for r in results if r.correta)`
RECURSIVE CountCorrect(_)
CountCorrect(rs) ==
  IF Len(rs) = 0 THEN 0
  ELSE (IF rs[1].correta THEN 1 ELSE 0) + CountCorrect(Tail(rs))

(***************************************************************************)
(* Inputs: the items, the provider's answers and its errors.               *)
(***************************************************************************)
\* QAItem values as DatasetLoader builds them: a true item and a false item
ItemPool ==
  { [arquivo |-> "doc1", titulo |-> "Cardio", pergunta |-> <<"Q", "1">>,
     esperado |-> "Verdadeiro", idx_local |-> 0],
    [arquivo |-> "doc1", titulo |-> "Cardio", pergunta |-> <<"Q", "2">>,
     esperado |-> "Falso", idx_local |-> 1] }

\* every sequence over S of length at most n
RECURSIVE SeqsUpTo(_, _)
SeqsUpTo(S, n) ==
  IF n = 0 THEN {<<>>}
  ELSE LET shorter == SeqsUpTo(S, n - 1)
       IN shorter \cup {Append(q, x) : q \in {r \in shorter : Len(r) = n - 1},
                                        x \in S}

\* texts BaseLLMProvider.ainvoke can return
Responses ==
  { <<"F", "a", "l", "s", "o">>,
    <<"F", "a", "l", "s", "o", "\n", "V", "E", "R", "D", "A", "D", "E", "I",
      "R", "O">>,
    <<"F", "a", "l", "s", "o", "s">> }

\* texts of the exceptions BaseLLMProvider.ainvoke can raise
ErrMsgs == { <<"F", "a", "l", "s", "o">> }

(***************************************************************************)
(* State.                                                                  *)
(***************************************************************************)
VARIABLES
  items,        \* the `items` argument of Evaluator.evaluate
  limit,        \* the `limit` argument of Evaluator.evaluate
  parallelism,  \* Evaluator.parallelism
  pc,           \* where evaluate / evaluate_batch stands
  evalItems,    \* the local `items` after the limit, as evaluate_batch gets it
  i,            \* the loop variable of evaluate_batch
  status,       \* per item: "Pending", "InFlight" or "Completed"
  slots,        \* the output slots of the running gather, <<>> while unset
  results,      \* the `results` list of evaluate_batch
  progress,     \* the "Acuracia parcial" lines printed, as <<correct, total>>
  calls,        \* per item: how many times provider.ainvoke was called
  reply         \* per item: what the provider answered, <<>> while it has not

vars ==
  <<items, limit, parallelism, pc, evalItems, i, status, slots, results,
    progress, calls, reply>>

inputs == <<items, limit, parallelism>>

VARIABLES
  loader,       \* DatasetLoader.load_dataset: the file, its blocks, the items
  parsed,       \* a response text and what ResponseParser made of it
  gen,          \* a ReportGenerator: its results and what it has produced
  run           \* an entry point: evaluate.py main or BatchEvaluator

\* the state outside the Evaluator
others == <<loader, parsed, gen, run>>

\* the components not in use in a specification stay as they are here
LoaderIdle == [pc |-> "idle"]

ParsedIdle == [pc |-> "idle"]

GenIdle == [pc |-> "idle"]

RunIdle == [pc |-> "idle"]

\* the positions of the chunk the loop is at
Batch == BatchIdx(i, Len(evalItems), parallelism)

\* the slot of item k in the running gather
SlotOf(k) == k - i

\* asyncio.gather / tqdm.gather returns once every awaitable has a result
AllSettled(ss) == \A j \in 1..Len(ss) : ss[j] /= <<>>

Init ==
  /\ items \in SeqsUpTo(ItemPool, MaxItems)
  /\ limit \in {NoInt} \cup {Int1(n) : n \in 0..MaxLimit}
  /\ parallelism \in (-1)..MaxPar
  /\ pc = "evaluate"
  /\ evalItems = <<>>
  /\ i = 0
  /\ status = [k \in 1..Len(items) |-> "Pending"]
  /\ slots = <<>>
  /\ results = <<>>
  /\ progress = <<>>
  /\ calls = [k \in 1..Len(items) |-> 0]
  /\ reply = [k \in 1..Len(items) |-> <<>>]
  /\ loader = LoaderIdle
  /\ parsed = ParsedIdle
  /\ gen = GenIdle
  /\ run = RunIdle

(***************************************************************************)
(* Evaluator.evaluate, lines 88-96.                                        *)
(***************************************************************************)
Evaluate ==
  /\ pc = "evaluate"
  /\ evalItems' = ApplyLimit(items, limit)
  /\ IF Len(evalItems') = 0 THEN pc' = "done" ELSE pc' = "for"
  /\ UNCHANGED <<inputs, i, status, slots, results, progress, calls, reply>>
  /\ UNCHANGED others

(***************************************************************************)
(* Evaluator.evaluate_batch, lines 53-73.                                  *)
(***************************************************************************)
\* line 56 with parallelism = 0: range() raises ValueError, which leaves
\* evaluate_batch and evaluate
RangeError ==
  /\ pc = "for"
  /\ parallelism = 0
  /\ pc' = "raised"
  /\ UNCHANGED <<inputs, evalItems, i, status, slots, results, progress,
                 calls, reply>>
  /\ UNCHANGED others

\* lines 56-64: the loop takes its next value, slices the chunk and hands one
\* evaluate_single coroutine per item to gather
NextChunk ==
  /\ pc = "for"
  /\ parallelism /= 0
  /\ InRange(i, Len(evalItems), parallelism)
  /\ slots' = [j \in 1..Cardinality(Batch) |-> <<>>]
  /\ pc' = "gather"
  /\ UNCHANGED <<inputs, evalItems, i, status, results, progress, calls,
                 reply>>
  /\ UNCHANGED others

\* every coroutine of the run handed to the event loop at once
StartCallAnyItem(k) ==
  /\ pc = "gather"
  /\ k \in 1..Len(evalItems)
  /\ status[k] = "Pending"
  /\ status' = [status EXCEPT ![k] = "InFlight"]
  /\ calls' = [calls EXCEPT ![k] = @ + 1]
  /\ UNCHANGED <<inputs, pc, evalItems, i, slots, results, progress, reply>>
  /\ UNCHANGED others

\* line 32: the coroutine of item k runs up to `await provider.ainvoke(...)`
StartCall(k) ==
  /\ pc = "gather"
  /\ k \in Batch
  /\ status[k] = "Pending"
  /\ status' = [status EXCEPT ![k] = "InFlight"]
  /\ calls' = [calls EXCEPT ![k] = @ + 1]
  /\ UNCHANGED <<inputs, pc, evalItems, i, slots, results, progress, reply>>
  /\ UNCHANGED others

\* the result stored in completion order, in the first slot still unset
CallSucceedsNextFreeSlot(k, r) ==
  /\ pc = "gather"
  /\ k \in DOMAIN status
  /\ status[k] = "InFlight"
  /\ status' = [status EXCEPT ![k] = "Completed"]
  /\ reply' = [reply EXCEPT ![k] = <<[ok |-> TRUE, text |-> r]>>]
  /\ LET free == CHOOSE j \in 1..Len(slots) :
                   /\ slots[j] = <<>>
                   /\ \A h \in 1..(j - 1) : slots[h] /= <<>>
     IN slots' = [slots EXCEPT ![free] = <<evaluate_single_ok(evalItems[k], r)>>]
  /\ UNCHANGED <<inputs, pc, evalItems, i, results, progress, calls>>
  /\ UNCHANGED others

\* lines 37-49: the call of item k returns the text r
CallSucceeds(k, r) ==
  /\ pc = "gather"
  /\ k \in DOMAIN status
  /\ status[k] = "InFlight"
  /\ status' = [status EXCEPT ![k] = "Completed"]
  /\ reply' = [reply EXCEPT ![k] = <<[ok |-> TRUE, text |-> r]>>]
  /\ slots' = [slots EXCEPT ![SlotOf(k)] = <<evaluate_single_ok(evalItems[k], r)>>]
  /\ UNCHANGED <<inputs, pc, evalItems, i, results, progress, calls>>
  /\ UNCHANGED others

\* the exception of item k not caught: it leaves gather and the run
CallFailsPropagates(k, m) ==
  /\ pc = "gather"
  /\ k \in DOMAIN status
  /\ status[k] = "InFlight"
  /\ status' = [status EXCEPT ![k] = "Completed"]
  /\ reply' = [reply EXCEPT ![k] = <<[ok |-> FALSE, text |-> m]>>]
  /\ pc' = "raised"
  /\ UNCHANGED <<inputs, evalItems, i, slots, results, progress, calls>>
  /\ UNCHANGED others

\* the failed call of item k issued again
CallFailsRetries(k, m) ==
  /\ pc = "gather"
  /\ k \in DOMAIN status
  /\ status[k] = "InFlight"
  /\ calls[k] <= 1
  /\ status' = [status EXCEPT ![k] = "Pending"]
  /\ UNCHANGED <<inputs, pc, evalItems, i, slots, results, progress, calls,
                 reply>>
  /\ UNCHANGED others

\* lines 33-36, 40-49: the call of item k raises an exception with text m
CallFails(k, m) ==
  /\ pc = "gather"
  /\ k \in DOMAIN status
  /\ status[k] = "InFlight"
  /\ status' = [status EXCEPT ![k] = "Completed"]
  /\ reply' = [reply EXCEPT ![k] = <<[ok |-> FALSE, text |-> m]>>]
  /\ slots' = [slots EXCEPT ![SlotOf(k)] = <<evaluate_single_err(evalItems[k], m)>>]
  /\ UNCHANGED <<inputs, pc, evalItems, i, results, progress, calls>>
  /\ UNCHANGED others

\* the partial accuracy taken over the chunk alone
ChunkDoneChunkAccuracy ==
  /\ pc = "gather"
  /\ AllSettled(slots)
  /\ results' = results \o [j \in 1..Len(slots) |-> slots[j][1]]
  /\ progress' = Append(progress,
                        <<CountCorrect([j \in 1..Len(slots) |-> slots[j][1]]),
                          Len(slots)>>)
  /\ slots' = <<>>
  /\ i' = i + parallelism
  /\ pc' = "for"
  /\ UNCHANGED <<inputs, evalItems, status, calls, reply>>
  /\ UNCHANGED others

\* lines 61/64-71: gather returns the slots in item order; they are appended
\* to results and the partial accuracy is printed
ChunkDone ==
  /\ pc = "gather"
  /\ AllSettled(slots)
  /\ results' = results \o [j \in 1..Len(slots) |-> slots[j][1]]
  /\ progress' = Append(progress, <<CountCorrect(results'), Len(results')>>)
  /\ slots' = <<>>
  /\ i' = i + parallelism
  /\ pc' = "for"
  /\ UNCHANGED <<inputs, evalItems, status, calls, reply>>
  /\ UNCHANGED others

\* line 73: the range is exhausted
Return ==
  /\ pc = "for"
  /\ parallelism /= 0
  /\ ~InRange(i, Len(evalItems), parallelism)
  /\ pc' = "done"
  /\ UNCHANGED <<inputs, evalItems, i, status, slots, results, progress,
                 calls, reply>>
  /\ UNCHANGED others

Next ==
  \/ Evaluate
  \/ RangeError
  \/ NextChunk
  \/ \E k \in 1..MaxItems : StartCall(k)
  \/ \E k \in 1..MaxItems, r \in Responses : CallSucceeds(k, r)
  \/ \E k \in 1..MaxItems, m \in ErrMsgs : CallFails(k, m)
  \/ ChunkDone
  \/ Return

Spec == Init /\ [][Next]_vars

(***************************************************************************)
(* Notions the properties share.                                           *)
(***************************************************************************)
\* the items whose provider call has been started and has not completed
InFlight == {k \in DOMAIN status : status[k] = "InFlight"}

\* the number of the chunk item k falls in, for a parallelism of at least 1
ChunkOf(k) == (k - 1) \div parallelism

\* the provider has answered the call of item k with a text
Succeeded(k) == reply[k] /= <<>> /\ reply[k][1].ok

\* the provider has answered the call of item k with an exception
Failed(k) == reply[k] /= <<>> /\ ~reply[k][1].ok

\* result r carries the five fields of item it
SameItem(r, it) ==
  /\ r.arquivo = it.arquivo
  /\ r.titulo = it.titulo
  /\ r.idx_local = it.idx_local
  /\ r.pergunta = it.pergunta
  /\ r.esperado = it.esperado

\* the first min(L, n) items, n items when no limit is configured
LimitPrefix ==
  IF limit = NoInt THEN items
  ELSE SubSeq(items, 1, Min(limit[1], Len(items)))

(***************************************************************************)
(* C1. Failure isolation: with a parallelism of at least 1 the run never   *)
(* ends in an exception, whichever calls fail; when it returns there is    *)
(* one result per dispatched item, and every item whose call succeeded     *)
(* has the result of its own response: pred is the parse of that response, *)
(* correta compares it with the item's label, resposta_bruta is the text.  *)
(***************************************************************************)
C1_FailureIsolation ==
  parallelism >= 1 =>
    /\ pc /= "raised"
    /\ pc = "done" =>
         /\ Len(results) = Len(evalItems)
         /\ \A k \in 1..Len(evalItems) :
              /\ reply[k] /= <<>>
              /\ Succeeded(k) =>
                   /\ results[k].pred =
                        parse_label_from_response(reply[k][1].text)
                   /\ results[k].correta =
                        (results[k].pred = evalItems[k].esperado)
                   /\ results[k].resposta_bruta = reply[k][1].text

\* a finished run in which a call failed and a sibling of the same chunk
\* succeeded with a verdict
C1_Witness ==
  /\ pc = "done"
  /\ parallelism >= 2
  /\ \E a, b \in 1..Len(results) :
       /\ ChunkOf(a) = ChunkOf(b)
       /\ Failed(a)
       /\ Succeeded(b)
       /\ results[b].pred /= None

(***************************************************************************)
(* C2. A failed call yields a result with pred = None, correta = FALSE      *)
(* and resposta_bruta = "[ERRO NA CHAMADA]: " followed by the error text;  *)
(* the parser is not applied to it (a verdict word inside the error text   *)
(* gives no label) and the five item fields are those of the item.         *)
(***************************************************************************)
C2_FailedCallResult ==
  /\ \A k \in 1..Len(results) :
       Failed(k) =>
         /\ results[k].pred = None
         /\ results[k].correta = FALSE
         /\ results[k].resposta_bruta = ErrPrefix \o reply[k][1].text
         /\ SameItem(results[k], items[k])
  /\ \A k \in Batch :
       (pc = "gather" /\ Failed(k)) =>
         /\ slots[SlotOf(k)] /= <<>>
         /\ slots[SlotOf(k)][1].pred = None
         /\ slots[SlotOf(k)][1].correta = FALSE
         /\ slots[SlotOf(k)][1].resposta_bruta = ErrPrefix \o reply[k][1].text
         /\ SameItem(slots[SlotOf(k)][1], items[k])

\* a result of a failed call whose error text holds the very verdict word
\* the item expects
C2_Witness ==
  \E k \in 1..Len(results) :
    /\ Failed(k)
    /\ parse_label_from_response(results[k].resposta_bruta)
         = results[k].esperado

(***************************************************************************)
(* C3. Bounded concurrency: the number of calls started and not completed  *)
(* never exceeds the parallelism (and is zero for a parallelism below 1).  *)
(***************************************************************************)
C3_BoundedConcurrency ==
  Cardinality(InFlight) <= IF parallelism >= 1 THEN parallelism ELSE 0

\* a full chunk in flight while more items wait
C3_Witness ==
  /\ parallelism >= 2
  /\ Cardinality(InFlight) = parallelism
  /\ Len(evalItems) > parallelism

(***************************************************************************)
(* C4. Chunk barrier: a call of a later chunk is started only when every   *)
(* call of every earlier chunk has completed, by success or by failure;    *)
(* hence the calls in flight all belong to one chunk.                      *)
(***************************************************************************)
C4_ChunkBarrier ==
  parallelism >= 1 =>
    /\ \A a, b \in DOMAIN status :
         (ChunkOf(a) < ChunkOf(b) /\ status[b] /= "Pending")
           => status[a] = "Completed"
    /\ \A a, b \in InFlight : ChunkOf(a) = ChunkOf(b)

\* a call of the second chunk in flight after a call of the first failed
C4_Witness ==
  /\ parallelism >= 1
  /\ \E a, b \in DOMAIN status :
       /\ ChunkOf(a) = 0
       /\ Failed(a)
       /\ ChunkOf(b) = 1
       /\ status[b] = "InFlight"

(***************************************************************************)
(* C5. Exactly one result per evaluated item: for a parallelism of at      *)
(* least 1, when evaluate returns, the results are as many as the items    *)
(* of the limit-truncated sequence (the first min(L, n) items, all n       *)
(* without a limit), and every one of those items was answered once.       *)
(***************************************************************************)
C5_OneResultPerItem ==
  (parallelism >= 1 /\ pc = "done") =>
    /\ Len(results) = Len(LimitPrefix)
    /\ \A k \in 1..Len(LimitPrefix) : status[k] = "Completed"

(***************************************************************************)
(* C6. Order preservation: result k carries the fields of item k of the    *)
(* input, whatever order the calls of a chunk complete in; a completed     *)
(* call fills the slot of its own item and no other, and the results hold  *)
(* nothing of the chunk in flight until every call of it has settled.      *)
(***************************************************************************)
C6_OrderPreserved ==
  /\ \A k \in 1..Len(results) : SameItem(results[k], items[k])
  /\ pc = "gather" =>
       /\ Len(results) = i
       /\ \A k \in Batch :
            /\ (status[k] = "Completed") = (slots[SlotOf(k)] /= <<>>)
            /\ slots[SlotOf(k)] /= <<>>
                 => SameItem(slots[SlotOf(k)][1], items[k])
  /\ \A k \in 1..Len(results) : status[k] = "Completed"

\* the second call of a chunk of two different items completed before the
\* first, after an earlier chunk was merged
C6_Witness ==
  /\ pc = "gather"
  /\ Len(results) >= 1
  /\ Len(slots) >= 2
  /\ slots[1] = <<>>
  /\ slots[2] /= <<>>
  /\ items[i + 1] /= items[i + 2]

(***************************************************************************)
(* C7. Parallelism clamping: a run configured with a parallelism of 0 or   *)
(* less behaves as one with parallelism 1: it does not raise and it        *)
(* returns one result per dispatched item.                                 *)
(***************************************************************************)
C7_ParallelismClamped ==
  parallelism <= 0 =>
    /\ pc /= "raised"
    /\ pc = "done" => Len(results) = Len(evalItems)

(***************************************************************************)
(* C8. Item limit: with a limit L >= 0 and a parallelism of at least 1,    *)
(* evaluate answers exactly the first min(L, n) items: when it returns     *)
(* there are min(L, n) results, the provider was called once for each of   *)
(* those items and never for another; L = 0 gives no result and no call.   *)
(***************************************************************************)
C8_ItemLimit ==
  (limit /= NoInt /\ parallelism >= 1 /\ pc = "done") =>
    /\ Len(results) = Min(limit[1], Len(items))
    /\ \A k \in DOMAIN calls :
         calls[k] = IF k <= Min(limit[1], Len(items)) THEN 1 ELSE 0

(***************************************************************************)
(* C9. No retries: the provider is called at most once for any item; an    *)
(* item is called exactly when it has left Pending, a failed call is not   *)
(* issued again, and when a run with a parallelism of at least 1 returns,  *)
(* every dispatched item has had its one call run to an answer.            *)
(***************************************************************************)
C9_NoRetries ==
  /\ \A k \in DOMAIN calls :
       /\ calls[k] <= 1
       /\ (calls[k] = 1) = (status[k] /= "Pending")
       /\ reply[k] /= <<>> => (calls[k] = 1 /\ status[k] = "Completed")
  /\ (parallelism >= 1 /\ pc = "done") =>
       \A k \in 1..Len(evalItems) : calls[k] = 1 /\ reply[k] /= <<>>

\* a finished run of several chunks in which a call failed
C9_Witness ==
  /\ pc = "done"
  /\ Len(progress) >= 2
  /\ \E k \in 1..Len(results) : Failed(k) /\ calls[k] = 1

(***************************************************************************)
(* C10. In every result, merged or still in a slot, correta holds exactly  *)
(* when pred equals esperado; a result with pred = None is not correct.    *)
(***************************************************************************)
C10_CorrectIffEqual ==
  LET Good(r) ==
        /\ r.correta = (r.pred = r.esperado)
        /\ r.pred = None => r.correta = FALSE
  IN /\ \A k \in 1..Len(results) : Good(results[k])
     /\ \A j \in 1..Len(slots) : slots[j] /= <<>> => Good(slots[j][1])

\* results with a right verdict, with a wrong verdict and with none
C10_Witness ==
  /\ \E k \in 1..Len(results) : results[k].correta
  /\ \E k \in 1..Len(results) :
       results[k].pred \in {"Verdadeiro", "Falso"} /\ ~results[k].correta
  /\ \E k \in 1..Len(results) : Succeeded(k) /\ results[k].pred = None

(***************************************************************************)
(* DatasetLoader.load_dataset (src/dataset/loader.py).                     *)
(*                                                                         *)
(* A block is a JSON object: each of its keys is either absent, <<>>, or   *)
(* present with a value, <<value>>.                                        *)
(***************************************************************************)
\* blocks in a dataset file
MaxBlocks == 2
\* questions in a block
MaxQ == 4

Digits == <<"1", "2", "3", "4", "5", "6", "7", "8", "9">>

\* the text of the j-th question of a block, all different
Question(j) == <<"Q", Digits[j]>>

\* the block objects a dataset file may hold
BlockPool ==
  { [arquivo |-> a, titulo |-> <<"Cardio">>, perguntas |-> q] :
      a \in {<<"doc1">>, <<>>},
      q \in {<<>>} \cup {<<[j \in 1..n |-> Question(j)]>> : n \in 0..MaxQ} }

\* dict.get(key, default) on a key that is absent or present
DictGet(entry, default) == IF entry = <<>> THEN default ELSE entry[1]

\* the QAItem dataclass
QAItem(arquivo, titulo, pergunta, esperado, idx_local) ==
  [arquivo |-> arquivo, titulo |-> titulo, pergunta |-> pergunta,
   esperado |-> esperado, idx_local |-> idx_local]

\* the pair with its two labels exchanged
PairItemsLabelsSwapped(arquivo, titulo, perguntas, idx) ==
  << QAItem(arquivo, titulo, perguntas[idx + 1], "Falso", idx),
     QAItem(arquivo, titulo, perguntas[idx + 2], "Verdadeiro", idx + 1) >>

\* the pair with the false item appended before the true one
PairItemsFalseFirst(arquivo, titulo, perguntas, idx) ==
  << QAItem(arquivo, titulo, perguntas[idx + 2], "Falso", idx + 1),
     QAItem(arquivo, titulo, perguntas[idx + 1], "Verdadeiro", idx) >>

\* lines 48-61: the two items appended for the 0-based index idx
PairItems(arquivo, titulo, perguntas, idx) ==
  << QAItem(arquivo, titulo, perguntas[idx + 1], "Verdadeiro", idx),
     QAItem(arquivo, titulo, perguntas[idx + 2], "Falso", idx + 1) >>

\* lines 47-61: the loop `for i in range(0, len(perguntas) - 1, 2)`, from idx
RECURSIVE PairsFrom(_, _, _, _)
PairsFrom(arquivo, titulo, perguntas, idx) ==
  IF idx < Len(perguntas) - 1
  THEN PairItems(arquivo, titulo, perguntas, idx)
         \o PairsFrom(arquivo, titulo, perguntas, idx + 2)
  ELSE <<>>

\* lines 42-61: the items one block adds
BlockItems(bloco) ==
  PairsFrom(DictGet(bloco.arquivo, ""), DictGet(bloco.titulo, ""),
            DictGet(bloco.perguntas, <<>>), 0)

\* no Evaluator has been constructed
EngineIdle ==
  /\ items = <<>>
  /\ limit = NoInt
  /\ parallelism = 1
  /\ pc = "idle"
  /\ evalItems = <<>>
  /\ i = 0
  /\ status = <<>>
  /\ slots = <<>>
  /\ results = <<>>
  /\ progress = <<>>
  /\ calls = <<>>
  /\ reply = <<>>

LoaderInit ==
  /\ loader \in
       { [pc |-> "load_dataset", exists |-> e, data |-> d, b |-> 1,
          items |-> <<>>] :
           e \in BOOLEAN, d \in SeqsUpTo(BlockPool, MaxBlocks) }
  /\ EngineIdle
  /\ parsed = ParsedIdle
  /\ gen = GenIdle
  /\ run = RunIdle

\* line 34 skipped: the file opened whether or not it exists
LoadOpenUnchecked ==
  /\ loader.pc = "load_dataset"
  /\ loader' = [loader EXCEPT !.pc = "for"]
  /\ UNCHANGED <<vars, parsed, gen, run>>

\* lines 34-40: the existence test, then the file is read
LoadOpen ==
  /\ loader.pc = "load_dataset"
  /\ loader' = [loader EXCEPT !.pc = IF loader.exists THEN "for" ELSE "raised"]
  /\ UNCHANGED <<vars, parsed, gen, run>>

\* lines 41-61: one pass of `for bloco in data`
LoadBlock ==
  /\ loader.pc = "for"
  /\ loader.b <= Len(loader.data)
  /\ loader' = [loader EXCEPT !.items = @ \o BlockItems(loader.data[loader.b]),
                              !.b = @ + 1]
  /\ UNCHANGED <<vars, parsed, gen, run>>

\* line 63
LoadReturn ==
  /\ loader.pc = "for"
  /\ loader.b > Len(loader.data)
  /\ loader' = [loader EXCEPT !.pc = "returned"]
  /\ UNCHANGED <<vars, parsed, gen, run>>

LoaderNext ==
  \/ LoadOpen
  \/ LoadBlock
  \/ LoadReturn

SpecLoader == LoaderInit /\ [][LoaderNext]_<<vars, others>>

(***************************************************************************)
(* Notions the loader properties share.                                    *)
(***************************************************************************)
\* the question list of a block, empty when the block has none
QuestionsOf(bloco) ==
  IF bloco.perguntas = <<>> THEN <<>> ELSE bloco.perguntas[1]

\* 2 * floor(n / 2) for the n questions of a block
Produced(bloco) == 2 * (Len(QuestionsOf(bloco)) \div 2)

\* the number of items the blocks before block b account for
RECURSIVE Offset(_, _)
Offset(data, b) ==
  IF b <= 1 THEN 0 ELSE Offset(data, b - 1) + Produced(data[b - 1])

\* the blocks the loop has been through
LoadedBlocks ==
  IF loader.pc \in {"for", "returned"} THEN 1..(loader.b - 1) ELSE {}

\* the item at 0-based place x among those of block b
ItemOf(b, x) == loader.items[Offset(loader.data, b) + x + 1]

\* some block of the file has no `perguntas` key
Malformed == \E b \in 1..Len(loader.data) : loader.data[b].perguntas = <<>>

RECURSIVE FlatItems(_)
FlatItems(data) ==
  IF Len(data) = 0 THEN <<>>
  ELSE BlockItems(data[1]) \o FlatItems(Tail(data))

HasPerguntas(bloco) == bloco.perguntas /= <<>>

(***************************************************************************)
(* C11. Dataset pairing: a block of n questions gives exactly              *)
(* 2 * floor(n / 2) items (none for n < 2, the last question dropped for   *)
(* an odd n); the item built from question index 2j is labelled            *)
(* Verdadeiro and the one built from index 2j + 1 is labelled Falso.       *)
(***************************************************************************)
C11_DatasetPairing ==
  /\ loader.pc \in {"for", "returned"} =>
       Len(loader.items) = Offset(loader.data, loader.b)
  /\ \A b \in LoadedBlocks :
       \A x \in 0..(Produced(loader.data[b]) - 1) :
         /\ ItemOf(b, x).idx_local = x
         /\ ItemOf(b, x).esperado =
              IF x % 2 = 0 THEN "Verdadeiro" ELSE "Falso"

\* a loaded file with a block of an odd number of questions, three or more,
\* and a block of fewer than two
C11_Witness ==
  /\ loader.pc = "returned"
  /\ Len(loader.items) > 0
  /\ \E a, b \in 1..Len(loader.data) :
       /\ Len(QuestionsOf(loader.data[a])) % 2 = 1
       /\ Len(QuestionsOf(loader.data[a])) >= 3
       /\ loader.data[b].perguntas /= <<>>
       /\ Len(QuestionsOf(loader.data[b])) < 2

(***************************************************************************)
(* C12. Loader ordering: the items list the blocks in input order and,     *)
(* within a block, the questions in increasing index order, the            *)
(* Verdadeiro item of a pair immediately before its Falso item; an item    *)
(* carries its block's arquivo and titulo and the question text found at   *)
(* its idx_local in the block's list.                                      *)
(***************************************************************************)
C12_LoaderOrdering ==
  /\ \A b \in LoadedBlocks :
       \A x \in 0..(Produced(loader.data[b]) - 1) :
         /\ ItemOf(b, x).arquivo = DictGet(loader.data[b].arquivo, "")
         /\ ItemOf(b, x).titulo = DictGet(loader.data[b].titulo, "")
         /\ ItemOf(b, x).pergunta =
              QuestionsOf(loader.data[b])[ItemOf(b, x).idx_local + 1]
         /\ ItemOf(b, x).pergunta = QuestionsOf(loader.data[b])[x + 1]
  /\ loader.pc \in {"for", "returned"} =>
       \A p \in 1..Len(loader.items) :
         p % 2 = 1 =>
           /\ p + 1 <= Len(loader.items)
           /\ loader.items[p].esperado = "Verdadeiro"
           /\ loader.items[p + 1].esperado = "Falso"
           /\ loader.items[p + 1].idx_local = loader.items[p].idx_local + 1
           /\ loader.items[p + 1].arquivo = loader.items[p].arquivo

\* a loaded file of two blocks with different arquivo, the first of two
\* pairs or more, the second of one or more
C12_Witness ==
  /\ loader.pc = "returned"
  /\ Len(loader.data) = 2
  /\ loader.data[1].arquivo /= loader.data[2].arquivo
  /\ Produced(loader.data[1]) >= 4
  /\ Produced(loader.data[2]) >= 2

(***************************************************************************)
(* C13, as claimed. Loader failures are fatal and all-or-nothing: when     *)
(* the file does not exist, or when some block lacks `perguntas`,          *)
(* load_dataset ends in an exception and returns no items.                 *)
(***************************************************************************)
C13_LoaderFailuresFatal ==
  (loader.pc \in {"returned", "raised"} /\ (~loader.exists \/ Malformed))
    => loader.pc = "raised"

(***************************************************************************)
(* C13, amended. A missing file is fatal: load_dataset raises before       *)
(* reading anything and no item is built. A block without `perguntas` is   *)
(* not an error: for an existing file load_dataset never raises, such a    *)
(* block adds no item, and the items returned are those of the other       *)
(* blocks, in order.                                                       *)
(***************************************************************************)
C13_MissingFileFatal ==
  /\ (loader.pc /= "idle" /\ ~loader.exists) =>
       /\ loader.pc \in {"load_dataset", "raised"}
       /\ loader.items = <<>>
  /\ (loader.pc /= "idle" /\ loader.exists) => loader.pc /= "raised"
  /\ loader.pc = "returned" =>
       loader.items = FlatItems(SelectSeq(loader.data, HasPerguntas))

\* a file loaded whose first block has no `perguntas` and whose second
\* block gave items
C13_Witness ==
  /\ loader.pc = "returned"
  /\ Len(loader.data) = 2
  /\ loader.data[1].perguntas = <<>>
  /\ Len(loader.items) >= 2

(***************************************************************************)
(* ResponseParser.parse_label_from_response on its own.                    *)
(***************************************************************************)
\* pieces a response text is put together from
MaxPieces == 3

\* what a response is made of: verdict words in several letter cases, words
\* that contain one, and separators
Pieces ==
  { <<"V", "e", "r", "d", "a", "d", "e", "i", "r", "o">>,
    <<"F", "A", "L", "S", "O">>,
    <<"f", "a", "l", "s", "o">>,
    <<"v", "e", "r", "d", "a", "d", "e", "i", "r", "o", "s">>,
    <<"s">>,
    <<" ">>,
    <<"\n">>,
    <<":">> }

\* the concatenations of at most n pieces
RECURSIVE TextsUpTo(_)
TextsUpTo(n) ==
  IF n = 0 THEN {<<>>}
  ELSE LET shorter == TextsUpTo(n - 1)
       IN shorter \cup {t \o q : t \in shorter, q \in Pieces}

ParserInit ==
  /\ parsed \in
       {[pc |-> "call", text |-> t, label |-> None] : t \in TextsUpTo(MaxPieces)}
  /\ EngineIdle
  /\ loader = LoaderIdle
  /\ gen = GenIdle
  /\ run = RunIdle

\* lines 82-88
ParseLabel ==
  /\ parsed.pc = "call"
  /\ parsed' = [parsed EXCEPT !.pc = "returned",
                              !.label = parse_label_from_response(parsed.text)]
  /\ UNCHANGED <<vars, loader, gen, run>>

ParserNext == ParseLabel

SpecParser == ParserInit /\ [][ParserNext]_<<vars, others>>

(***************************************************************************)
(* Notions the parser properties share.                                    *)
(***************************************************************************)
\* t[a..b] is a whole word: a longest run of word characters
IsWordAt(t, a, b) ==
  /\ a <= b
  /\ \A j \in a..b : IsWord(t[j])
  /\ a = 1 \/ ~IsWord(t[a - 1])
  /\ b = Len(t) \/ ~IsWord(t[b + 1])

\* the verdict a word spells, letter case aside, or None
VerdictOf(w) ==
  IF LowerText(w) = Verdadeiro THEN "Verdadeiro"
  ELSE IF LowerText(w) = Falso THEN "Falso"
  ELSE None

\* where the whole words of t that spell a verdict start
TokenStarts(t) ==
  {a \in 1..Len(t) :
     \E b \in a..Len(t) :
       IsWordAt(t, a, b) /\ VerdictOf(SubSeq(t, a, b)) /= None}

\* the verdict of the whole word that starts at a
VerdictAt(t, a) ==
  LET b == CHOOSE e \in a..Len(t) : IsWordAt(t, a, e)
  IN VerdictOf(SubSeq(t, a, b))

\* the greatest element of a non-empty set of numbers
MaxOf(S) == CHOOSE x \in S : \A y \in S : y <= x

\* where the letters of a verdict word occur in t, inside a word or not
SubstringStarts(t) ==
  {a \in 1..Len(t) :
     \E w \in {Verdadeiro, Falso} :
       /\ a + Len(w) - 1 <= Len(t)
       /\ \A j \in 1..Len(w) : Lower(t[a + j - 1]) = w[j]}

(***************************************************************************)
(* C15. Last occurrence wins: the label returned is the verdict of the     *)
(* last whole-word verdict token of the text, whatever tokens come         *)
(* before it, and None when the text has no verdict token (the empty       *)
(* text included).                                                         *)
(***************************************************************************)
C15_LastOccurrenceWins ==
  parsed.pc = "returned" =>
    parsed.label =
      IF TokenStarts(parsed.text) = {} THEN None
      ELSE VerdictAt(parsed.text, MaxOf(TokenStarts(parsed.text)))

\* a parsed text whose first token and last token give opposite verdicts
C15_Witness ==
  /\ parsed.pc = "returned"
  /\ Cardinality(TokenStarts(parsed.text)) >= 2
  /\ \E a \in TokenStarts(parsed.text) :
       VerdictAt(parsed.text, a) /= parsed.label
  /\ parsed.label /= None

(***************************************************************************)
(* C16. Matching is case-insensitive and word-bounded: the label is the    *)
(* same as that of the text put in lower case, and it is decided by whole  *)
(* words only: the letters of a verdict word inside a longer word are no   *)
(* occurrence, so a text whose verdict words all sit inside longer words   *)
(* has no label, and such a word after a real token does not change the    *)
(* label. No marker is needed before a token: a text that is one token     *)
(* has its verdict.                                                        *)
(***************************************************************************)
C16_CaseAndWordBounds ==
  parsed.pc = "returned" =>
    LET t == parsed.text
        whole == {a \in SubstringStarts(t) :
                    \E w \in {Verdadeiro, Falso} :
                      /\ a + Len(w) - 1 <= Len(t)
                      /\ IsWordAt(t, a, a + Len(w) - 1)
                      /\ LowerText(SubSeq(t, a, a + Len(w) - 1)) = w}
    IN /\ parsed.label = parse_label_from_response(LowerText(t))
       /\ whole = {} => parsed.label = None
       /\ whole /= {} =>
            parsed.label =
              IF Lower(t[MaxOf(whole)]) = "v" THEN "Verdadeiro" ELSE "Falso"
       /\ VerdictOf(t) /= None => parsed.label = VerdictOf(t)

\* an upper-case token followed by a longer word that contains the opposite
\* verdict word: the label is that of the token
C16_Witness ==
  /\ parsed.pc = "returned"
  /\ parsed.label = "Falso"
  /\ \E a \in TokenStarts(parsed.text) : parsed.text[a] = "F"
  /\ \E a \in SubstringStarts(parsed.text) :
       /\ a > MaxOf(TokenStarts(parsed.text))
       /\ Lower(parsed.text[a]) = "v"

(***************************************************************************)
(* ReportGenerator: accumulating results, the metrics and the reports.     *)
(***************************************************************************)
\* calls of add_result / add_results made on one ReportGenerator
MaxAdds == 2

\* what str.strip() removes at both ends
Whitespace == {" ", "\n", "\t", "\r"}

\* str.replace(c, by) for a one-character c
RECURSIVE Replace(_, _, _)
Replace(t, c, by) ==
  IF Len(t) = 0 THEN <<>>
  ELSE (IF Head(t) = c THEN by ELSE <<Head(t)>>) \o Replace(Tail(t), c, by)

RECURSIVE LStrip(_)
LStrip(t) ==
  IF Len(t) > 0 /\ Head(t) \in Whitespace THEN LStrip(Tail(t)) ELSE t

RECURSIVE RStrip(_)
RStrip(t) ==
  IF Len(t) > 0 /\ t[Len(t)] \in Whitespace
  THEN RStrip(SubSeq(t, 1, Len(t) - 1))
  ELSE t

\* str.strip()
Strip(t) == RStrip(LStrip(t))

\* str(n) for n >= 0
RECURSIVE StrInt(_)
StrInt(n) ==
  LET d == IF n % 10 = 0 THEN "0" ELSE Digits[n % 10]
  IN IF n < 10 THEN <<d>> ELSE Append(StrInt(n \div 10), d)

\* the row with the raw response written as it is
to_dict_raw_response(r) ==
  [arquivo |-> r.arquivo, titulo |-> r.titulo,
   idx_local |-> StrInt(r.idx_local),
   pergunta |-> Strip(Replace(r.pergunta, "\n", <<" ">>)),
   esperado |-> r.esperado,
   pred |-> IF r.pred = None THEN "" ELSE r.pred,
   correta |-> IF r.correta THEN "1" ELSE "0",
   resposta_bruta |-> r.resposta_bruta]

\* EvaluationResult.to_dict; `self.pred or ""` turns None and "" into ""
to_dict(r) ==
  [arquivo |-> r.arquivo, titulo |-> r.titulo,
   idx_local |-> StrInt(r.idx_local),
   pergunta |-> Strip(Replace(r.pergunta, "\n", <<" ">>)),
   esperado |-> r.esperado,
   pred |-> IF r.pred = None THEN "" ELSE r.pred,
   correta |-> IF r.correta THEN "1" ELSE "0",
   resposta_bruta |-> Replace(r.resposta_bruta, "\n", <<"\\", "n">>)]

RECURSIVE GCD(_, _)
GCD(a, b) == IF b = 0 THEN a ELSE GCD(b, a % b)

\* the quotient a / b as the fraction in lowest terms, b > 0: a Python float
\* quotient of two small integers is a function of that fraction
Ratio(a, b) == <<a \div GCD(a, b), b \div GCD(a, b)>>

\* the tally that opens a new group whenever the key changes
RECURSIVE TallyAdjacent(_, _, _)
TallyAdjacent(rs, field, acc) ==
  IF Len(rs) = 0 THEN acc
  ELSE LET r == Head(rs)
           c == IF r.correta THEN 1 ELSE 0
           n == Len(acc)
       IN IF n > 0 /\ acc[n].key = r[field]
          THEN TallyAdjacent(Tail(rs), field,
                 [acc EXCEPT ![n].total = @ + 1, ![n].correct = @ + c])
          ELSE TallyAdjacent(Tail(rs), field,
                 Append(acc, [key |-> r[field], total |-> 1, correct |-> c]))

\* the first loop of _metrics_by_file / _metrics_by_title: the dict as the
\* sequence of its entries in insertion order
RECURSIVE Tally(_, _, _)
Tally(rs, field, acc) ==
  IF Len(rs) = 0 THEN acc
  ELSE LET r == Head(rs)
           c == IF r.correta THEN 1 ELSE 0
           at == {j \in 1..Len(acc) : acc[j].key = r[field]}
       IN IF at /= {}
          THEN LET j == CHOOSE x \in at : TRUE
               IN Tally(Tail(rs), field,
                    [acc EXCEPT ![j].total = @ + 1, ![j].correct = @ + c])
          ELSE Tally(Tail(rs), field,
                 Append(acc, [key |-> r[field], total |-> 1, correct |-> c]))

\* the second loop: every group gets its accuracy
WithAccuracy(groups) ==
  [j \in 1..Len(groups) |->
     [key |-> groups[j].key, total |-> groups[j].total,
      correct |-> groups[j].correct,
      accuracy |-> IF groups[j].total > 0
                   THEN Ratio(groups[j].correct, groups[j].total)
                   ELSE Ratio(0, 1)]]

metrics_by_file(rs) == WithAccuracy(Tally(rs, "arquivo", <<>>))

metrics_by_title(rs) == WithAccuracy(Tally(rs, "titulo", <<>>))

\* the count taking only the empty string for a missing answer
RECURSIVE CountNoAnswerEmptyOnly(_)
CountNoAnswerEmptyOnly(rs) ==
  IF Len(rs) = 0 THEN 0
  ELSE (IF rs[1].pred = "" THEN 1 ELSE 0) + CountNoAnswerEmptyOnly(Tail(rs))

RECURSIVE CountNoAnswer(_)
CountNoAnswer(rs) ==
  IF Len(rs) = 0 THEN 0
  ELSE (IF rs[1].pred = None \/ rs[1].pred = "" THEN 1 ELSE 0)
         + CountNoAnswer(Tail(rs))

\* ReportGenerator.calculate_metrics: the dict as a record
calculate_metrics(rs) ==
  LET total == Len(rs)
      correct == CountCorrect(rs)
  IN IF total = 0
     THEN [total |-> 0, acertos |-> 0, erros |-> 0, acuracia |-> Ratio(0, 1),
           sem_resposta |-> 0]
     ELSE [total |-> total, acertos |-> correct, erros |-> total - correct,
           acuracia |-> Ratio(correct, total),
           sem_resposta |-> CountNoAnswer(rs),
           por_arquivo |-> metrics_by_file(rs),
           por_titulo |-> metrics_by_title(rs)]

fieldnames ==
  <<"arquivo", "titulo", "idx_local", "pergunta", "esperado", "pred",
    "correta", "resposta_bruta">>

\* the file save_csv writes: <<>> when it returns without writing
csv_file(rs) ==
  IF Len(rs) = 0 THEN <<>>
  ELSE << [header |-> fieldnames,
           rows |-> [j \in 1..Len(rs) |-> to_dict(rs[j])]] >>

\* the report of save_detailed_report, its timestamp left out
detailed_report(rs) ==
  [metrics |-> calculate_metrics(rs), results |-> rs]

\* a ratio printed with :.4f, in ten-thousandths
Fixed4(q) == (20000 * q[1] + q[2]) \div (2 * q[2])

\* what print_summary prints
summary(rs) ==
  LET metrics == calculate_metrics(rs)
      por_arquivo == IF "por_arquivo" \in DOMAIN metrics
                     THEN metrics.por_arquivo ELSE <<>>
  IN [total |-> metrics.total, acertos |-> metrics.acertos,
      erros |-> metrics.erros, acuracia |-> Fixed4(metrics.acuracia),
      sem_resposta |-> metrics.sem_resposta,
      por_arquivo |->
        [j \in 1..Len(por_arquivo) |->
           [arquivo |-> por_arquivo[j].key,
            accuracy |-> Fixed4(por_arquivo[j].accuracy),
            correct |-> por_arquivo[j].correct,
            total |-> por_arquivo[j].total]]]

\* items whose texts have newlines and blanks inside and at the ends
ReportItems ==
  << [arquivo |-> "doc1", titulo |-> "Cardio",
      pergunta |-> <<"Q", "\n", "1", " ">>,
      esperado |-> "Verdadeiro", idx_local |-> 0],
     [arquivo |-> "", titulo |-> "Cardio",
      pergunta |-> <<"\n", "Q", " ", "2">>,
      esperado |-> "Falso", idx_local |-> 1],
     [arquivo |-> "doc2", titulo |-> "",
      pergunta |-> <<"Q", "3">>,
      esperado |-> "Verdadeiro", idx_local |-> 10] >>

\* results as Evaluator.evaluate_single builds them
ResultPool ==
  << evaluate_single_ok(ReportItems[1],
       <<"F", "a", "l", "s", "o", "\n", "V", "E", "R", "D", "A", "D", "E",
         "I", "R", "O">>),
     evaluate_single_ok(ReportItems[2], <<"F", "a", "l", "s", "o">>),
     evaluate_single_ok(ReportItems[2], <<"F", "a", "l", "s", "o", "s">>),
     evaluate_single_err(ReportItems[2], <<"n", "o", "\n">>),
     evaluate_single_ok(ReportItems[3], <<"\n", "F", "a", "l", "s", "o">>) >>

\* result lists handed to add_results, such as one provider run gives
BatchPool ==
  { <<>>,
    <<ResultPool[1], ResultPool[2], ResultPool[1], ResultPool[3],
      ResultPool[2]>>,
    <<ResultPool[5], ResultPool[2], ResultPool[4], ResultPool[1],
      ResultPool[2]>> }

\* ReportGenerator.__init__; last, prev and out record the last call, the
\* call before it and what the last call gave back or wrote
GenInit ==
  /\ gen = [pc |-> "ready", results |-> <<>>, adds |-> 0, last |-> "__init__",
            prev |-> "__init__", out |-> <<>>]
  /\ EngineIdle
  /\ loader = LoaderIdle
  /\ parsed = ParsedIdle
  /\ run = RunIdle

Called(op, rs, out) ==
  [gen EXCEPT !.results = rs, !.last = op, !.prev = gen.last, !.out = out]

AddResult ==
  /\ gen.adds < MaxAdds
  /\ \E j \in 1..Len(ResultPool) :
       gen' = [Called("add_result", Append(gen.results, ResultPool[j]), <<>>)
                 EXCEPT !.adds = @ + 1]
  /\ UNCHANGED <<vars, loader, parsed, run>>

AddResults ==
  /\ gen.adds < MaxAdds
  /\ \E b \in BatchPool :
       gen' = [Called("add_results", gen.results \o b, <<>>)
                 EXCEPT !.adds = @ + 1]
  /\ UNCHANGED <<vars, loader, parsed, run>>

CalculateMetrics ==
  /\ gen' = Called("calculate_metrics", gen.results,
                   <<calculate_metrics(gen.results)>>)
  /\ UNCHANGED <<vars, loader, parsed, run>>

\* save_csv rewriting the accumulated results as the rows it writes
SaveCsvInPlace ==
  /\ gen' = Called("save_csv",
                   [j \in 1..Len(gen.results) |->
                      [gen.results[j] EXCEPT
                         !.pergunta = to_dict(gen.results[j]).pergunta]],
                   csv_file(gen.results))
  /\ UNCHANGED <<vars, loader, parsed, run>>

SaveCsv ==
  /\ gen' = Called("save_csv", gen.results, csv_file(gen.results))
  /\ UNCHANGED <<vars, loader, parsed, run>>

SaveDetailedReport ==
  /\ gen' = Called("save_detailed_report", gen.results,
                   <<detailed_report(gen.results)>>)
  /\ UNCHANGED <<vars, loader, parsed, run>>

PrintSummary ==
  /\ gen' = Called("print_summary", gen.results, <<summary(gen.results)>>)
  /\ UNCHANGED <<vars, loader, parsed, run>>

GenNext ==
  \/ AddResult
  \/ AddResults
  \/ CalculateMetrics
  \/ SaveCsv
  \/ SaveDetailedReport
  \/ PrintSummary

SpecGen == GenInit /\ [][GenNext]_<<vars, others>>

(***************************************************************************)
(* Notions the report properties share.                                    *)
(***************************************************************************)
ReadOps ==
  {"calculate_metrics", "save_csv", "save_detailed_report", "print_summary"}

\* the positions of rs whose `field` is k
WithKey(rs, field, k) == {j \in 1..Len(rs) : rs[j][field] = k}

CorrectAt(rs) == {j \in 1..Len(rs) : rs[j].correta}

RECURSIVE SumOf(_, _)
SumOf(groups, field) ==
  IF Len(groups) = 0 THEN 0
  ELSE groups[1][field] + SumOf(Tail(groups), field)

\* groups is the partition of rs by equality of `field`, counted
PartitionBy(groups, rs, field) ==
  /\ \A a, b \in 1..Len(groups) : groups[a].key = groups[b].key => a = b
  /\ {groups[j].key : j \in 1..Len(groups)} =
       {rs[j][field] : j \in 1..Len(rs)}
  /\ \A j \in 1..Len(groups) :
       /\ groups[j].total = Cardinality(WithKey(rs, field, groups[j].key))
       /\ groups[j].correct =
            Cardinality(WithKey(rs, field, groups[j].key) \cap CorrectAt(rs))
  /\ SumOf(groups, "total") = Len(rs)
  /\ SumOf(groups, "correct") = Cardinality(CorrectAt(rs))

\* t with a blank in the place of every newline
Spaced(t) == [j \in 1..Len(t) |-> IF t[j] = "\n" THEN " " ELSE t[j]]

\* q is t without the whitespace at its two ends
IsStripOf(q, t) ==
  \E a \in 1..Len(t) + 1 :
    \E b \in a - 1..Len(t) :
      /\ q = SubSeq(t, a, b)
      /\ \A j \in 1..a - 1 : t[j] \in Whitespace
      /\ \A j \in b + 1..Len(t) : t[j] \in Whitespace
      /\ a <= b => t[a] \notin Whitespace /\ t[b] \notin Whitespace

NewlinesBefore(t, k) == Cardinality({j \in 1..k - 1 : t[j] = "\n"})

\* q is t with backslash, n in the place of every newline
IsEscapeOf(q, t) ==
  /\ Len(q) = Len(t) + NewlinesBefore(t, Len(t) + 1)
  /\ \A j \in 1..Len(t) :
       LET at == j + NewlinesBefore(t, j)
       IN IF t[j] = "\n" THEN q[at] = "\\" /\ q[at + 1] = "n"
          ELSE q[at] = t[j]

\* everything of a row but the question text is as the claim on the CSV says
RowEncodes(row, r) ==
  /\ row.pred = (IF r.pred \in {"Verdadeiro", "Falso"} THEN r.pred ELSE "")
  /\ row.correta = (IF r.correta THEN "1" ELSE "0")
  /\ IsEscapeOf(row.resposta_bruta, r.resposta_bruta)

C18_CompleteSnapshot ==
  gen.last = "calculate_metrics" =>
    LET m == gen.out[1]
    IN /\ DOMAIN m = {"total", "acertos", "erros", "acuracia", "sem_resposta",
                      "por_arquivo", "por_titulo"}
       /\ m.acuracia[2] > 0
       /\ Len(gen.results) = 0 =>
            m.acuracia[1] = 0 /\ m.por_arquivo = <<>> /\ m.por_titulo = <<>>
       /\ \A g \in {m.por_arquivo[j] : j \in 1..Len(m.por_arquivo)}
                     \cup {m.por_titulo[j] : j \in 1..Len(m.por_titulo)} :
            /\ g.accuracy[2] > 0
            /\ 0 <= g.accuracy[1]
            /\ g.accuracy[1] <= g.accuracy[2]

(***************************************************************************)
(* C19. The aggregator is read-only and idempotent: calculate_metrics,     *)
(* save_csv, save_detailed_report and print_summary leave the accumulated  *)
(* result sequence and every result in it as they were, and a              *)
(* calculate_metrics right after a calculate_metrics returns the same      *)
(* snapshot.                                                               *)
(***************************************************************************)
C19_ReadOnlyIdempotent ==
  [][ gen'.last \in ReadOps =>
        /\ gen'.results = gen.results
        /\ (gen.last = "calculate_metrics" /\ gen'.last = "calculate_metrics")
             => gen'.out = gen.out ]_<<vars, others>>

\* calculate_metrics called twice in a row on results that save_csv would
\* write differently from how they are stored
C19_Witness ==
  /\ gen.last = "calculate_metrics"
  /\ gen.prev = "calculate_metrics"
  /\ \E j \in 1..Len(gen.results) :
       to_dict(gen.results[j]).pergunta /= gen.results[j].pergunta

NoText == <<>>

Text1(t) == <<t>>

\* Python truthiness of an Optional[str]: None and "" are false
TruthyText(v) == v /= NoText /\ Len(v[1]) > 0

\* the position of the first "}" of t at or after position j, 0 if none
FirstClose(t, j) ==
  LET closes == {k \in j..Len(t) : t[k] = "}"}
  IN IF closes = {} THEN 0
     ELSE CHOOSE k \in closes : \A m \in closes : k <= m

\* re.findall(r'\$\{([^}]+)\}', t) from position pos on: the variable names
RECURSIVE FindVars(_, _)
FindVars(t, pos) ==
  IF pos + 3 > Len(t) THEN <<>>
  ELSE IF t[pos] = "$" /\ t[pos + 1] = "{" /\ FirstClose(t, pos + 2) > pos + 2
       THEN LET j == FirstClose(t, pos + 2)
            IN <<SubSeq(t, pos + 2, j - 1)>> \o FindVars(t, j + 1)
       ELSE FindVars(t, pos + 1)

\* f'${{{var_name}}}'
Placeholder(var) == <<"$", "{">> \o var \o <<"}">>

\* str.replace(pat, by) for a non-empty pat
RECURSIVE ReplaceSub(_, _, _)
ReplaceSub(t, pat, by) ==
  IF Len(t) < Len(pat) THEN t
  ELSE IF SubSeq(t, 1, Len(pat)) = pat
       THEN by \o ReplaceSub(SubSeq(t, Len(pat) + 1, Len(t)), pat, by)
       ELSE <<Head(t)>> \o ReplaceSub(Tail(t), pat, by)

\* os.environ.get(name) for an environment given as a function on names
EnvGet(env, name) == IF name \in DOMAIN env THEN Text1(env[name]) ELSE NoText

\* the loop over the matches: a variable with a non-empty value is replaced,
\* any other placeholder is kept
RECURSIVE SubstAll(_, _, _)
SubstAll(value, matches, env) ==
  IF Len(matches) = 0 THEN value
  ELSE LET env_value == EnvGet(env, Head(matches))
       IN SubstAll(IF TruthyText(env_value)
                   THEN ReplaceSub(value, Placeholder(Head(matches)),
                                   env_value[1])
                   ELSE value,
                   Tail(matches), env)

StartsWith(t, pre) == Len(t) >= Len(pre) /\ SubSeq(t, 1, Len(pre)) = pre

EndsWith(t, suf) ==
  Len(t) >= Len(suf) /\ SubSeq(t, Len(t) - Len(suf) + 1, Len(t)) = suf

\* ConfigLoader._substitute_env_vars; a value that is not a str is returned
\* as it is
substitute_env_vars(value, env) ==
  IF value = NoText THEN NoText
  ELSE LET t == SubstAll(value[1], FindVars(value[1], 1), env)
       IN IF StartsWith(t, <<"$", "{">>) /\ EndsWith(t, <<"}">>)
          THEN NoText
          ELSE Text1(t)

\* ConfigLoader._load_config, lines 107-131, for one entry of `providers`
\* under the default settings
ProviderConfigItem(data, env) ==
  [name |-> data.name, type |-> data.type, model |-> data.model,
   api_key |-> substitute_env_vars(data.api_key, env),
   base_url |-> substitute_env_vars(data.base_url, env),
   region |-> "us-east-1",
   aws_bearer_token |-> substitute_env_vars(data.aws_bearer_token, env),
   temperature |-> 0, max_tokens |-> 12000, timeout |-> 120,
   extra_params |-> data.extra]

\* ConfigLoader.validate_provider: the list of issues
validate_provider(provider) ==
  (IF provider.type \in {"openai", "maritaca"}
        /\ ~TruthyText(provider.api_key)
   THEN <<"API key missing">> ELSE <<>>)
  \o (IF provider.type = "aws_bedrock"
           /\ ~TruthyText(provider.aws_bearer_token)
      THEN <<"AWS bearer token missing">> ELSE <<>>)
  \o (IF provider.type = "ollama" /\ ~TruthyText(provider.base_url)
      THEN <<"Base URL missing">> ELSE <<>>)

\* ConfigLoader.validate_all: the names with issues, as the dict's entries
RECURSIVE validate_all(_)
validate_all(providers) ==
  IF Len(providers) = 0 THEN <<>>
  ELSE LET issues == validate_provider(Head(providers))
           rest == validate_all(Tail(providers))
       IN IF Len(issues) = 0 THEN rest
          ELSE <<[key |-> Head(providers).name, value |-> issues]>>
                 \o SelectSeq(rest, LAMBDA e : e.key /= Head(providers).name)

\* the class ProviderFactory picks for a type
ProviderClass ==
  [t \in {"maritaca", "openai", "ollama", "aws_bedrock"} |->
     CASE t = "maritaca" -> "MaritacaProvider"
       [] t = "openai" -> "OpenAIProvider"
       [] t = "ollama" -> "OllamaProvider"
       [] t = "aws_bedrock" -> "BedrockProvider"]

\* the factory handing the credential over without the other settings
create_from_config_defaults(provider_config) ==
  IF provider_config.type \in DOMAIN ProviderClass
  THEN [raised |-> FALSE, class |-> ProviderClass[provider_config.type],
        config |-> [model_name |-> provider_config.model,
                    temperature |-> 0, max_tokens |-> 12000,
                    api_key |-> provider_config.api_key,
                    base_url |-> NoText, timeout |-> 120,
                    extra_params |-> {}],
        llm |-> <<>>,
        aws_bearer_token |-> NoText,
        region_name |-> "us-east-1"]
  ELSE [raised |-> TRUE, error |-> "ValueError"]

\* ProviderFactory.create_from_config with BaseLLMProvider.__init__ and
\* BedrockProvider.__init__: _llm starts as None (<<>>)
create_from_config(provider_config) ==
  IF provider_config.type \in DOMAIN ProviderClass
  THEN [raised |-> FALSE, class |-> ProviderClass[provider_config.type],
        config |-> [model_name |-> provider_config.model,
                    temperature |-> provider_config.temperature,
                    max_tokens |-> provider_config.max_tokens,
                    api_key |-> provider_config.api_key,
                    base_url |-> provider_config.base_url,
                    timeout |-> provider_config.timeout,
                    extra_params |-> provider_config.extra_params],
        llm |-> <<>>,
        aws_bearer_token |-> IF provider_config.type = "aws_bedrock"
                             THEN provider_config.aws_bearer_token
                             ELSE NoText,
        region_name |-> IF provider_config.type = "aws_bedrock"
                        THEN provider_config.region ELSE "us-east-1"]
  ELSE [raised |-> TRUE, error |-> "ValueError"]

\* ConfigLoader.get_provider: the first provider of that name, or none
get_provider(providers, name) ==
  SelectSeq(providers, LAMBDA q : q.name = name)

\* evaluate_all, lines 118-130: the providers to evaluate
RECURSIVE SelectByName(_, _)
SelectByName(providers, names) ==
  IF Len(names) = 0 THEN <<>>
  ELSE LET found == get_provider(providers, Head(names))
       IN (IF Len(found) > 0 THEN <<found[1]>> ELSE <<>>)
            \o SelectByName(providers, Tail(names))

\* d[key] = value on a dict kept as its entries in insertion order
DictSet(d, key, value) ==
  IF \E k \in 1..Len(d) : d[k].key = key
  THEN [k \in 1..Len(d) |->
          IF d[k].key = key THEN [key |-> key, value |-> value] ELSE d[k]]
  ELSE Append(d, [key |-> key, value |-> value])

\* list(d.values())
DictValues(d) == [k \in 1..Len(d) |-> d[k].value]

(***************************************************************************)
(* The two entry points: evaluate.py main and evaluate_batch.py main with  *)
(* BatchEvaluator.  The loader runs as modelled above; a provider call of  *)
(* Evaluator.evaluate is one step and no limit is given.  The single       *)
(* entry point runs with parallelism 1.                                    *)
(***************************************************************************)
\* providers in the batch configuration
MaxProviders == 2

\* dataset files of a run: missing, empty, one block without `perguntas`,
\* one block with a pair of questions
RunFiles ==
  { [pc |-> "load_dataset", exists |-> e, data |-> d, b |-> 1,
     items |-> <<>>] :
      e \in BOOLEAN,
      d \in {<<>>} \cup
            { <<bloco>> : bloco \in
                {k \in BlockPool :
                   /\ k.arquivo = <<"doc1">>
                   /\ k.perguntas \in {<<>>, << <<Question(1), Question(2)>> >>}} } }

\* entries of the `providers` list of providers.json: literal and
\* placeholder credentials, a repeated name, an unsupported type, a missing
\* endpoint
RawPool ==
  { [name |-> "A", type |-> "openai", model |-> "m1",
     api_key |-> Text1(<<"s", "k">>), base_url |-> NoText,
     aws_bearer_token |-> NoText, extra |-> {}],
    [name |-> "B", type |-> "maritaca", model |-> "m2",
     api_key |-> Text1(<<"$", "{", "K", "}">>), base_url |-> NoText,
     aws_bearer_token |-> NoText, extra |-> {}],
    [name |-> "A", type |-> "ollama", model |-> "m3",
     api_key |-> NoText, base_url |-> Text1(<<"h", "$", "{", "K", "}">>),
     aws_bearer_token |-> NoText, extra |-> {<<"seed", 7>>}],
    [name |-> "C", type |-> "aws_bedrock", model |-> "m4",
     api_key |-> NoText, base_url |-> NoText,
     aws_bearer_token |-> Text1(<<"$", "{", "K", "}", "$", "{", "J", "}">>),
     extra |-> {}],
    [name |-> "D", type |-> "azure", model |-> "m5",
     api_key |-> Text1(<<"s", "k">>), base_url |-> NoText,
     aws_bearer_token |-> NoText, extra |-> {}],
    [name |-> "E", type |-> "ollama", model |-> "m6",
     api_key |-> NoText, base_url |-> NoText,
     aws_bearer_token |-> NoText, extra |-> {}] }

\* os.environ: K unset, or set to "v"
Environs ==
  { [n \in {} |-> <<>>], [n \in {<<"K">>} |-> <<"v">>] }

\* the --providers argument: absent, names in another order, an unknown name
NameLists == { <<>>, <<"B", "A">>, <<"Z">> }

RunState(entry, raw, env, names, par, detailed) ==
  [pc |-> IF entry = "batch" THEN "config" ELSE "load",
   entry |-> entry, raw |-> raw, env |-> env, names |-> names,
   parallelism |-> par, detailed |-> detailed, providers |-> <<>>,
   selected |-> <<>>, dataset |-> <<>>, p |-> 1, i |-> 0,
   provider |-> <<>>, constructed |-> 0, invoked |-> 0, results |-> <<>>,
   reports |-> <<>>, rows |-> <<>>, exit |-> <<>>]

RunInit ==
  /\ \E f \in RunFiles :
       \/ /\ loader = f
          /\ run \in {RunState("single", <<>>, [n \in {} |-> <<>>], <<>>, 1, d) :
                        d \in BOOLEAN}
       \/ /\ loader = [f EXCEPT !.pc = "not called"]
          /\ run \in {RunState("batch", raw, env, names, par, FALSE) :
                        raw \in SeqsUpTo(RawPool, MaxProviders),
                        env \in Environs, names \in NameLists,
                        par \in {0, 1}}
  /\ EngineIdle
  /\ parsed = ParsedIdle
  /\ gen = GenIdle

\* loader.py:37-38: json.load raises for a file that is not JSON
LoadJsonError ==
  /\ loader.pc = "load_dataset"
  /\ loader.exists
  /\ loader' = [loader EXCEPT !.pc = "raised"]
  /\ UNCHANGED <<vars, parsed, gen, run>>

Exit(code) == [run EXCEPT !.pc = "exit", !.exit = <<code>>]

\* evaluate.py: load_dataset raised inside the try of main
MainLoadFailed ==
  /\ run.entry = "single"
  /\ run.pc = "load"
  /\ loader.pc = "raised"
  /\ run' = Exit(1)
  /\ UNCHANGED <<vars, loader, parsed, gen>>

\* the provider get_provider of evaluate.py builds
MainProvider ==
  [raised |-> FALSE, class |-> "OllamaProvider",
   config |-> [model_name |-> "m0", temperature |-> 0, max_tokens |-> 12000,
               api_key |-> NoText, base_url |-> NoText, timeout |-> 120,
               extra_params |-> {}],
   llm |-> <<>>, aws_bearer_token |-> NoText, region_name |-> "us-east-1"]

\* get_provider called as soon as main starts
MainGetProviderEarly ==
  /\ run.entry = "single"
  /\ run.pc = "load"
  /\ \/ run' = [run EXCEPT !.pc = "evaluate", !.dataset = loader.items,
                           !.provider = <<MainProvider>>,
                           !.constructed = @ + 1]
     \/ run' = Exit(1)
  /\ UNCHANGED <<vars, loader, parsed, gen>>

\* evaluate.py:118-126: the dataset is there, get_provider builds the
\* provider or raises ValueError
MainGetProvider ==
  /\ run.entry = "single"
  /\ run.pc = "load"
  /\ loader.pc = "returned"
  /\ \/ run' = [run EXCEPT !.pc = "evaluate", !.dataset = loader.items,
                           !.provider = <<MainProvider>>,
                           !.constructed = @ + 1]
     \/ run' = Exit(1)
  /\ UNCHANGED <<vars, loader, parsed, gen>>

\* Evaluator.evaluate: the provider is called for the next item; the first
\* call reads the llm property, which initialises the client
ProviderCall ==
  /\ run.pc = "evaluate"
  /\ run.i < Len(run.dataset)
  /\ run' = [run EXCEPT !.i = @ + 1, !.invoked = @ + 1,
                        !.provider[1].llm = <<"client">>]
  /\ UNCHANGED <<vars, loader, parsed, gen>>

\* evaluate.py:130-148: evaluate returned; save_csv writes a file only for
\* a non-empty result list
MainReport ==
  /\ run.entry = "single"
  /\ run.pc = "evaluate"
  /\ run.i = Len(run.dataset)
  /\ run' = [Exit(0) EXCEPT
               !.results = <<[key |-> "single",
                              value |-> [status |-> "completed",
                                         n |-> run.i]]>>,
               !.reports = (IF run.i > 0 THEN <<"csv">> ELSE <<>>)
                             \o (IF run.detailed THEN <<"detailed">> ELSE <<>>)
                             \o <<"summary">>]
  /\ UNCHANGED <<vars, loader, parsed, gen>>

\* evaluate_batch.py:327-328: BatchEvaluator(args.config) loads the
\* configuration; then evaluate_all calls load_dataset
BatchLoadConfig ==
  /\ run.entry = "batch"
  /\ run.pc = "config"
  /\ run' = [run EXCEPT !.pc = "load",
                        !.providers =
                          [k \in 1..Len(run.raw) |->
                             ProviderConfigItem(run.raw[k], run.env)]]
  /\ loader' = [loader EXCEPT !.pc = "load_dataset"]
  /\ UNCHANGED <<vars, parsed, gen>>

\* evaluate_batch.py: load_dataset raised in evaluate_all and the exception
\* reached main
BatchLoadFailed ==
  /\ run.entry = "batch"
  /\ run.pc = "load"
  /\ loader.pc = "raised"
  /\ run' = Exit(1)
  /\ UNCHANGED <<vars, loader, parsed, gen>>

\* save_results and print_summary of evaluate_batch.py main: the CSV and the
\* detailed report of every completed provider with results, then
\* save_combined_summary, which calls r.get on an EvaluationResult and
\* raises AttributeError when there is such a provider; otherwise it writes
\* one Status / Error row per record
BatchOutputs(records) ==
  LET done == {k \in 1..Len(records) :
                 records[k].status = "completed" /\ records[k].n > 0}
      RECURSIVE Files(_)
      Files(k) ==
        IF k > Len(records) THEN <<>>
        ELSE (IF k \in done THEN <<"csv", "detailed">> ELSE <<>>)
               \o Files(k + 1)
  IN IF done /= {}
     THEN [reports |-> Files(1), rows |-> <<>>, exit |-> 1]
     ELSE [reports |->
             (IF Len(records) > 0 THEN <<"combined_summary">> ELSE <<>>)
               \o <<"run_metadata", "summary">>,
           rows |-> [k \in 1..Len(records) |->
                       [Provider |-> records[k].provider,
                        Model |-> records[k].model,
                        Status |-> records[k].status,
                        Error |-> IF "error" \in DOMAIN records[k]
                                  THEN records[k].error ELSE <<"N/A">>]],
           exit |-> 0]

\* evaluate_batch.py:115-135: the dataset is there; with no provider
\* selected evaluate_all returns and main saves
BatchSelect ==
  /\ run.entry = "batch"
  /\ run.pc = "load"
  /\ loader.pc = "returned"
  /\ LET selected == IF Len(run.names) > 0
                     THEN SelectByName(run.providers, run.names)
                     ELSE run.providers
     IN run' = IF Len(selected) = 0
               THEN [Exit(BatchOutputs(<<>>).exit) EXCEPT
                       !.dataset = loader.items,
                       !.reports = BatchOutputs(<<>>).reports,
                       !.rows = BatchOutputs(<<>>).rows]
               ELSE [run EXCEPT !.pc = "providers", !.selected = selected,
                                !.dataset = loader.items]
  /\ UNCHANGED <<vars, loader, parsed, gen>>

\* the 'failed' dict of evaluate_provider
FailedRecord(provider_config, error) ==
  [provider |-> provider_config.name, model |-> provider_config.model,
   status |-> "failed", error |-> error, n |-> 0]

\* evaluate_provider with the exception of create_from_config let through
BatchProviderStartUncaught ==
  /\ run.entry = "batch"
  /\ run.pc = "providers"
  /\ run.p <= Len(run.selected)
  /\ LET cfg == run.selected[run.p]
         issues == validate_provider(cfg)
         made == create_from_config(cfg)
         failed(error) ==
           [run EXCEPT !.p = @ + 1,
                       !.results = DictSet(@, cfg.name,
                                           FailedRecord(cfg, error))]
     IN run' =
          IF Len(issues) > 0 THEN failed(issues)
          ELSE IF made.raised THEN Exit(1)
          ELSE IF run.parallelism = 0 /\ Len(run.dataset) > 0
          THEN [failed(<<"ValueError">>) EXCEPT !.constructed = @ + 1]
          ELSE [run EXCEPT !.pc = "evaluate", !.i = 0,
                           !.provider = <<made>>, !.constructed = @ + 1]
  /\ UNCHANGED <<vars, loader, parsed, gen>>

\* evaluate_provider, and evaluate_all storing its record, up to the first
\* provider call: validation issues, an exception of create_from_config or
\* of evaluate (range() with parallelism 0) give a failed record
BatchProviderStart ==
  /\ run.entry = "batch"
  /\ run.pc = "providers"
  /\ run.p <= Len(run.selected)
  /\ LET cfg == run.selected[run.p]
         issues == validate_provider(cfg)
         made == create_from_config(cfg)
         failed(error) ==
           [run EXCEPT !.p = @ + 1,
                       !.results = DictSet(@, cfg.name,
                                           FailedRecord(cfg, error))]
     IN run' =
          IF Len(issues) > 0 THEN failed(issues)
          ELSE IF made.raised THEN failed(<<made.error>>)
          ELSE IF run.parallelism = 0 /\ Len(run.dataset) > 0
          THEN [failed(<<"ValueError">>) EXCEPT !.constructed = @ + 1]
          ELSE [run EXCEPT !.pc = "evaluate", !.i = 0,
                           !.provider = <<made>>, !.constructed = @ + 1]
  /\ UNCHANGED <<vars, loader, parsed, gen>>

\* evaluate_provider: evaluate returned, the completed record is stored
BatchProviderDone ==
  /\ run.entry = "batch"
  /\ run.pc = "evaluate"
  /\ run.i = Len(run.dataset)
  /\ LET cfg == run.selected[run.p]
     IN run' = [run EXCEPT
                  !.pc = "providers", !.p = @ + 1,
                  !.results =
                    DictSet(@, cfg.name,
                            [provider |-> cfg.name, model |-> cfg.model,
                             type |-> cfg.type, status |-> "completed",
                             n |-> run.i])]
  /\ UNCHANGED <<vars, loader, parsed, gen>>

\* evaluate_batch.py:336-339 after the last provider
BatchSave ==
  /\ run.entry = "batch"
  /\ run.pc = "providers"
  /\ run.p > Len(run.selected)
  /\ run' = [Exit(BatchOutputs(DictValues(run.results)).exit) EXCEPT
               !.reports = BatchOutputs(DictValues(run.results)).reports,
               !.rows = BatchOutputs(DictValues(run.results)).rows]
  /\ UNCHANGED <<vars, loader, parsed, gen>>

RunNext ==
  \/ LoadOpen
  \/ LoadJsonError
  \/ LoadBlock
  \/ LoadReturn
  \/ MainLoadFailed
  \/ MainGetProvider
  \/ ProviderCall
  \/ MainReport
  \/ BatchLoadConfig
  \/ BatchLoadFailed
  \/ BatchSelect
  \/ BatchProviderStart
  \/ BatchProviderDone
  \/ BatchSave

SpecRun == RunInit /\ [][RunNext]_<<vars, others>>

(***************************************************************************)
(* C14. A dataset-level failure aborts the run before any provider call:   *)
(* in the single-provider and in the batch entry point no provider is      *)
(* constructed or invoked before the dataset is loaded, and when loading   *)
(* fails no provider is constructed or invoked, no result and no report is *)
(* produced, and the run can only end with exit code 1.                    *)
(***************************************************************************)
C14_DatasetFailureAborts ==
  /\ (run.constructed > 0 \/ run.invoked > 0) => loader.pc = "returned"
  /\ loader.pc = "raised" =>
       /\ run.constructed = 0
       /\ run.invoked = 0
       /\ run.results = <<>>
       /\ run.reports = <<>>
       /\ run.exit \in {<<>>, <<1>>}
       /\ run.pc \in {"load", "exit"}

\* a batch run with providers configured that ended on a dataset file that
\* exists and is not JSON
C14_Witness ==
  /\ loader.pc = "raised"
  /\ loader.exists
  /\ run.entry = "batch"
  /\ Len(run.raw) > 0
  /\ run.exit = <<1>>

(***************************************************************************)
(* C21. Once the dataset has loaded, the single-provider run completes     *)
(* and produces a result CSV: whatever the provider calls did, and also    *)
(* for the run over zero items, a run whose provider was built ends with   *)
(* exit code 0 and with the CSV file written.                              *)
(***************************************************************************)
C21_RunEndsWithCsv ==
  (run.entry = "single" /\ run.pc = "exit" /\ run.constructed > 0) =>
    /\ run.exit = <<0>>
    /\ \E k \in 1..Len(run.reports) : run.reports[k] = "csv"

(***************************************************************************)
(* Notions the batch properties share.                                     *)
(***************************************************************************)
\* the selected providers evaluate_provider has returned for
Evaluated == 1..(run.p - 1)

\* the last of the evaluated providers that has the name of provider k
LastNamed(k) ==
  CHOOSE m \in Evaluated :
    /\ run.selected[m].name = run.selected[k].name
    /\ \A x \in Evaluated : run.selected[x].name = run.selected[k].name => x <= m

\* the record stored under a name
RecordOf(name) ==
  (CHOOSE e \in {run.results[k] : k \in 1..Len(run.results)} :
     e.key = name).value

\* evaluate_provider cannot complete for this configuration
MustFail(cfg) ==
  \/ Len(validate_provider(cfg)) > 0
  \/ cfg.type \notin {"maritaca", "openai", "ollama", "aws_bedrock"}
  \/ run.parallelism = 0 /\ Len(run.dataset) > 0

\* failures are isolated: every evaluated provider has a record under its
\* name, a failed one with an error and no result, and the batch comes to
\* its end only after the last selected provider
ProvidersIsolated ==
  run.entry = "batch" =>
    /\ \A k \in Evaluated :
         /\ \E e \in 1..Len(run.results) :
              run.results[e].key = run.selected[k].name
         /\ LET cfg == run.selected[LastNamed(k)]
                rec == RecordOf(cfg.name)
            IN /\ rec.provider = cfg.name
               /\ IF MustFail(cfg)
                  THEN /\ rec.status = "failed"
                       /\ Len(rec.error) > 0
                       /\ rec.n = 0
                  ELSE /\ rec.status = "completed"
                       /\ rec.n = Len(run.dataset)
    /\ (run.pc = "exit" /\ Len(run.selected) > 0) =>
         run.p = Len(run.selected) + 1

(***************************************************************************)
(* C22 as stated. Batch-mode provider isolation: a provider whose          *)
(* configuration is invalid or whose construction or evaluation raises is  *)
(* recorded under its name as failed with an error text and no results,    *)
(* no exception escapes evaluate_provider, every later provider is still   *)
(* evaluated, and after evaluate_all the results map has one entry per     *)
(* selected provider.                                                      *)
(***************************************************************************)
C22_EntryPerSelectedProvider ==
  /\ ProvidersIsolated
  /\ (run.entry = "batch" /\ run.pc = "exit" /\ loader.pc = "returned") =>
       Len(run.results) = Len(run.selected)

(***************************************************************************)
(* C22 amended. Batch-mode provider isolation: as above, and after         *)
(* evaluate_all the results map, which is keyed by provider name, has one  *)
(* entry per distinct name among the selected providers, holding the       *)
(* record of the last provider evaluated under that name.                  *)
(***************************************************************************)
C22_ProviderIsolation ==
  /\ ProvidersIsolated
  /\ (run.entry = "batch" /\ run.pc = "exit" /\ loader.pc = "returned") =>
       /\ {run.results[k].key : k \in 1..Len(run.results)} =
            {run.selected[k].name : k \in 1..Len(run.selected)}
       /\ Len(run.results) =
            Cardinality({run.selected[k].name : k \in 1..Len(run.selected)})

\* a finished batch whose first provider failed on an unsupported type and
\* whose second provider was evaluated on two items
C22_Witness ==
  /\ run.entry = "batch"
  /\ run.pc = "exit"
  /\ Len(run.results) = 2
  /\ run.results[1].value.status = "failed"
  /\ run.selected[1].type = "azure"
  /\ run.results[2].value.status = "completed"
  /\ run.results[2].value.n = 2

(***************************************************************************)
(* C23. Multi-provider batch summary: after a batch run save_results       *)
(* completes and the combined summary has one row per evaluated provider;  *)
(* the row of a provider that completed with results carries its total,    *)
(* its correct count, its accuracy and its per-category accuracies.        *)
(***************************************************************************)
C23_CombinedSummary ==
  (run.entry = "batch" /\ run.pc = "exit" /\ Len(run.results) > 0) =>
    /\ run.exit = <<0>>
    /\ \E k \in 1..Len(run.reports) : run.reports[k] = "combined_summary"
    /\ Len(run.rows) = Len(run.results)
    /\ \A k \in 1..Len(run.rows) :
         LET rec == run.results[k].value
         IN /\ run.rows[k].Provider = run.results[k].key
            /\ (rec.status = "completed" /\ rec.n > 0) =>
                 /\ "Total" \in DOMAIN run.rows[k]
                 /\ run.rows[k].Total = rec.n

(***************************************************************************)
(* C24. ProviderFactory.create_from_config returns, for each of the types  *)
(* maritaca, openai, ollama and aws_bedrock, a provider of that type whose *)
(* config carries the item's model, temperature, max_tokens, api_key,      *)
(* base_url, timeout and extra_params unchanged, and fails with a          *)
(* ValueError for any other type; creating the provider initialises no     *)
(* client and calls no service: the client appears with the first call.    *)
(***************************************************************************)
C24_FactoryFaithful ==
  run.entry = "batch" =>
    /\ run.pc = "evaluate" =>
         LET cfg == run.selected[run.p]
             made == run.provider[1]
         IN /\ \/ cfg.type = "maritaca" /\ made.class = "MaritacaProvider"
               \/ cfg.type = "openai" /\ made.class = "OpenAIProvider"
               \/ cfg.type = "ollama" /\ made.class = "OllamaProvider"
               \/ cfg.type = "aws_bedrock" /\ made.class = "BedrockProvider"
            /\ made.config.model_name = cfg.model
            /\ made.config.temperature = cfg.temperature
            /\ made.config.max_tokens = cfg.max_tokens
            /\ made.config.api_key = cfg.api_key
            /\ made.config.base_url = cfg.base_url
            /\ made.config.timeout = cfg.timeout
            /\ made.config.extra_params = cfg.extra_params
            /\ run.i = 0 => made.llm = <<>>
            /\ run.i > 0 => made.llm /= <<>>
    /\ \A k \in Evaluated :
         LET cfg == run.selected[LastNamed(k)]
         IN (/\ cfg.type \notin {"maritaca", "openai", "ollama", "aws_bedrock"}
             /\ Len(validate_provider(cfg)) = 0)
              => RecordOf(cfg.name).error = <<"ValueError">>

\* an ollama provider just created from an item with an endpoint and an
\* extra parameter, before its first call
C24_Witness ==
  /\ run.entry = "batch"
  /\ run.pc = "evaluate"
  /\ run.i = 0
  /\ Len(run.dataset) > 0
  /\ run.provider[1].class = "OllamaProvider"
  /\ run.provider[1].config.base_url /= NoText
  /\ run.provider[1].config.extra_params /= {}
  /\ run.provider[1].llm = <<>>

(***************************************************************************)
(* C30. A configuration string that still holds a ${VAR} placeholder after *)
(* substitution, VAR being unset, is never passed on as a credential or    *)
(* endpoint of a provider that is called; a provider whose required        *)
(* credential is missing has an issue reported by validate_provider,       *)
(* validate_all lists exactly the providers with an issue, and in batch    *)
(* mode such a provider is recorded as failed without any invocation.      *)
(***************************************************************************)
UnresolvedIn(value, env) ==
  /\ value /= NoText
  /\ \E k \in 1..Len(FindVars(value[1], 1)) :
       ~TruthyText(EnvGet(env, FindVars(value[1], 1)[k]))

RequiredMissing(cfg) ==
  \/ cfg.type \in {"openai", "maritaca"} /\ ~TruthyText(cfg.api_key)
  \/ cfg.type = "aws_bedrock" /\ ~TruthyText(cfg.aws_bearer_token)
  \/ cfg.type = "ollama" /\ ~TruthyText(cfg.base_url)

C30_NoPlaceholderReachesCall ==
  run.entry = "batch" =>
    /\ (run.pc = "evaluate" /\ run.i > 0) =>
         LET made == run.provider[1]
         IN /\ ~UnresolvedIn(made.config.api_key, run.env)
            /\ ~UnresolvedIn(made.config.base_url, run.env)
            /\ ~UnresolvedIn(made.aws_bearer_token, run.env)
    /\ \A k \in 1..Len(run.providers) :
         (\E m \in 1..Len(run.providers) :
            /\ run.providers[m].name = run.providers[k].name
            /\ RequiredMissing(run.providers[m]))
           <=> \E e \in 1..Len(validate_all(run.providers)) :
                 validate_all(run.providers)[e].key = run.providers[k].name
    /\ \A k \in Evaluated :
         LET cfg == run.selected[LastNamed(k)]
         IN RequiredMissing(cfg) =>
              /\ RecordOf(cfg.name).status = "failed"
              /\ RecordOf(cfg.name).error = validate_provider(cfg)
    /\ (\A k \in 1..Len(run.selected) : RequiredMissing(run.selected[k]))
         => run.constructed = 0 /\ run.invoked = 0

(***************************************************************************)
(* C28. In the metrics of a list of results as evaluate_single builds      *)
(* them, sem_resposta is the number of results whose pred is None: the     *)
(* results of failed calls plus the results of responses without a verdict *)
(* word; each of them is also counted in erros, so that                    *)
(* sem_resposta <= erros <= total.                                         *)
(***************************************************************************)
\* the result of the except branch of evaluate_single
IsCallFailure(r) == r.pred = None /\ StartsWith(r.resposta_bruta, ErrPrefix)

\* the result of a response in which the parser found no verdict word
IsNoToken(r) ==
  /\ ~StartsWith(r.resposta_bruta, ErrPrefix)
  /\ parse_label_from_response(r.resposta_bruta) = None

C28_NoAnswerAccounting ==
  (gen.pc /= "idle" /\ gen.last = "calculate_metrics") =>
    LET rs == gen.results
        m == gen.out[1]
        at == 1..Len(rs)
        unknown == {j \in at : rs[j].pred = None}
    IN /\ m.sem_resposta = Cardinality(unknown)
       /\ m.sem_resposta = Cardinality({j \in at : IsCallFailure(rs[j])})
                             + Cardinality({j \in at : IsNoToken(rs[j])})
       /\ \A j \in unknown : ~rs[j].correta
       /\ m.erros = Cardinality({j \in at : ~rs[j].correta})
       /\ m.sem_resposta <= m.erros
       /\ m.erros <= m.total
       /\ m.total = Len(rs)

\* metrics over a failed call, a response without a verdict word, a wrong
\* verdict and a right one
C28_Witness ==
  /\ gen.pc /= "idle"
  /\ gen.last = "calculate_metrics"
  /\ \E j \in 1..Len(gen.results) : IsCallFailure(gen.results[j])
  /\ \E j \in 1..Len(gen.results) : IsNoToken(gen.results[j])
  /\ gen.out[1].sem_resposta >= 2
  /\ gen.out[1].sem_resposta < gen.out[1].erros
  /\ gen.out[1].erros < gen.out[1].total

(***************************************************************************)
(* C27. Every EvaluationResult, as stored in the result sequence and as    *)
(* written into the `results` array of the detailed report, has a          *)
(* resposta_bruta without a literal newline, the newlines being replaced   *)
(* by the visible escape sequence, for the responses of successful calls   *)
(* and for the texts put in place of failed ones.                          *)
(***************************************************************************)
HasNewline(t) == \E j \in 1..Len(t) : t[j] = "\n"

C27_StoredResponseNormalized ==
  /\ \A k \in 1..Len(results) : ~HasNewline(results[k].resposta_bruta)
  /\ \A k \in 1..Len(detailed_report(results).results) :
       ~HasNewline(detailed_report(results).results[k].resposta_bruta)

(***************************************************************************)
(* C25. Every evaluated item moves from Pending to InFlight and from       *)
(* InFlight to exactly one of the outcomes labelled, unknown for a         *)
(* response without a verdict, unknown for a failed call; no item skips    *)
(* InFlight, no completed item goes back or changes its outcome, and when  *)
(* the run ends no evaluated item is left Pending or InFlight.             *)
(***************************************************************************)
Outcome(k) ==
  CASE Failed(k) -> "unknown-due-to-call-failure"
    [] Succeeded(k) /\ parse_label_from_response(reply[k][1].text) = None ->
         "unknown-due-to-parse"
    [] Succeeded(k) -> "labeled"
    [] OTHER -> "none"

ItemStep ==
  \A k \in DOMAIN status :
    /\ status[k] = "Pending" => status'[k] \in {"Pending", "InFlight"}
    /\ status[k] = "InFlight" => status'[k] \in {"InFlight", "Completed"}
    /\ status[k] = "Completed" =>
         status'[k] = "Completed" /\ Outcome(k)' = Outcome(k)
    /\ (status[k] = "Completed") <=> (Outcome(k) /= "none")

RunEnded == pc \in {"done", "raised"}

NoneLeftBehind ==
  RunEnded => \A k \in 1..Len(evalItems) : status[k] = "Completed"

C25_ItemStateMachine == [][ItemStep]_vars /\ []NoneLeftBehind

\* the transitions alone
ItemTransitions == [][ItemStep]_vars

\* the end of the run for a parallelism of at least 1
EndWithPositiveParallelism == parallelism >= 1 => NoneLeftBehind

(***************************************************************************)
(* C26. The partial accuracy is printed once after each chunk and never    *)
(* while a chunk is in flight: the k-th line gives correct/total where     *)
(* total = min(k * parallelism, n) is the number of all results so far and *)
(* correct the number of those that are correct; total is positive and no  *)
(* line covers a chunk that has not settled wholly.                        *)
(***************************************************************************)
C26_ProgressSignal ==
  /\ \A k \in 1..Len(progress) :
       LET total == Min(k * parallelism, Len(evalItems))
       IN /\ progress[k][2] = total
          /\ total > 0
          /\ total <= Len(results)
          /\ progress[k][1] =
               Cardinality({j \in 1..total : results[j].correta})
  /\ parallelism >= 1 =>
       Len(progress) = (Len(results) + parallelism - 1) \div parallelism
  /\ parallelism < 1 => Len(progress) = 0
  /\ pc = "gather" => Len(progress) * parallelism = i

\* three items in chunks of two: the second line covers the short last
\* chunk, one result being correct in each chunk
C26_Witness ==
  /\ pc = "done"
  /\ parallelism = 2
  /\ Len(evalItems) = 3
  /\ progress = <<<<1, 2>>, <<2, 3>>>>

(***************************************************************************)
(* The script evaluate_py.py beside the pipeline of evaluate.py, both fed  *)
(* the same dataset file and the same provider answers.                    *)
(***************************************************************************)
\* evaluate_py.py:74-81: the QAItems of one block, in pairs
script_block_items(bloco) ==
  LET arquivo == DictGet(bloco.arquivo, "")
      titulo == DictGet(bloco.titulo, "")
      perguntas == DictGet(bloco.perguntas, <<>>)
      pairs == Len(perguntas) \div 2
  IN [x \in 1..(2 * pairs) |->
        QAItem(arquivo, titulo, perguntas[x],
               IF x % 2 = 1 THEN "Verdadeiro" ELSE "Falso", x - 1)]

\* evaluate_py.py load_dataset for a file that exists
RECURSIVE load_dataset(_)
load_dataset(data) ==
  IF Len(data) = 0 THEN <<>>
  ELSE script_block_items(Head(data)) \o load_dataset(Tail(data))

\* DatasetLoader.load_dataset for a file that exists: the loop over the blocks
RECURSIVE DatasetLoader_load_dataset(_)
DatasetLoader_load_dataset(data) ==
  IF Len(data) = 0 THEN <<>>
  ELSE BlockItems(Head(data)) \o DatasetLoader_load_dataset(Tail(data))

\* the script's parser taking the first match instead of the last
script_parse_label_first_match(text) ==
  LET matches == FindIter(text, 1)
  IN IF Len(matches) = 0 THEN None
     ELSE IF LowerText(matches[1])[1] = "v" THEN "Verdadeiro" ELSE "Falso"

\* evaluate_py.py parse_label_from_response
script_parse_label(text) ==
  LET matches == FindIter(text, 1)
  IN IF Len(matches) = 0 THEN None
     ELSE LET last == LowerText(Strip(matches[Len(matches)]))
          IN IF StartsWith(last, <<"v">>) THEN "Verdadeiro" ELSE "Falso"

\* what the provider does with a call: it answers with a content or raises
Reply(ok, text) == [ok |-> ok, text |-> text]

\* evaluate_py.py evaluate_batch.one: <<row, ok>> for item qi and the
\* provider's reply; call_model_async strips the content
one(qi, reply1) ==
  LET resposta == IF reply1.ok THEN Strip(reply1.text)
                  ELSE ErrorResponse(reply1.text)
      pred == IF reply1.ok THEN script_parse_label(resposta) ELSE None
      correta == IF reply1.ok /\ pred = qi.esperado THEN "1" ELSE "0"
      row == << qi.arquivo, qi.titulo, StrInt(qi.idx_local),
                Strip(Replace(qi.pergunta, "\n", <<" ">>)), qi.esperado,
                IF pred = None THEN "" ELSE pred, correta,
                Replace(resposta, "\n", <<"\\", "n">>) >>
  IN <<row, correta = "1">>

\* Evaluator.evaluate_single on the same reply; BaseLLMProvider.ainvoke
\* strips the content
evaluate_single(item, reply1) ==
  IF reply1.ok THEN evaluate_single_ok(item, Strip(reply1.text))
  ELSE evaluate_single_err(item, reply1.text)

\* the replies a provider gives: a verdict after a blank, two verdicts on
\* two lines, no verdict word, an exception, an empty content
ReplyPool ==
  << Reply(TRUE, <<" ", "F", "a", "l", "s", "o">>),
     Reply(TRUE, <<"F", "a", "l", "s", "o", "\n", "V", "E", "R", "D", "A",
                   "D", "E", "I", "R", "O">>),
     Reply(TRUE, <<"F", "a", "l", "s", "o", "s">>),
     Reply(FALSE, <<"F", "a", "l", "s", "o">>),
     Reply(TRUE, <<>>) >>

\* the provider's reply to each question, by the place of the item
AnswerPool ==
  { <<ReplyPool[1], ReplyPool[1], ReplyPool[1], ReplyPool[1]>>,
    <<ReplyPool[2], ReplyPool[1], ReplyPool[4], ReplyPool[3]>>,
    <<ReplyPool[4], ReplyPool[4], ReplyPool[4], ReplyPool[4]>>,
    <<ReplyPool[2], ReplyPool[2], ReplyPool[3], ReplyPool[5]>>,
    <<ReplyPool[1], ReplyPool[2], ReplyPool[2], ReplyPool[1]>> }

\* dataset files of at most one block
ScriptData == {<<>>} \cup {<<b>> : b \in BlockPool}

\* the reply to the item at place k
AnswerAt(k) == run.answers[((k - 1) % Len(run.answers)) + 1]

ScriptInit ==
  /\ run \in
       { [entry |-> "script", data |-> d, answers |-> a, limit |-> l,
          parallelism |-> p,
          script |-> [pc |-> "load", items |-> <<>>, i |-> 0,
                      linhas_csv |-> <<>>, acertos_total |-> 0,
                      processed |-> 0, csv |-> <<>>, exit |-> <<>>],
          pipeline |-> [pc |-> "load", items |-> <<>>, i |-> 0,
                        results |-> <<>>, csv |-> <<>>, acertos |-> 0,
                        exit |-> <<>>]] :
           d \in ScriptData, a \in AnswerPool,
           l \in {NoInt} \cup {Int1(n) : n \in 0..MaxLimit},
           p \in 0..MaxPar }
  /\ EngineIdle
  /\ loader = LoaderIdle
  /\ parsed = ParsedIdle
  /\ gen = GenIdle

\* evaluate_py.py:185-198: the dataset is loaded and cut to the limit; an
\* empty list ends the script with exit code 1
AmainLoad ==
  /\ run.script.pc = "load"
  /\ LET loaded == load_dataset(run.data)
         its == IF run.limit /= NoInt
                THEN SliceTo(loaded, Max(0, run.limit[1]))
                ELSE loaded
     IN run' = IF Len(its) = 0
               THEN [run EXCEPT !.script.pc = "exit", !.script.exit = <<1>>]
               ELSE [run EXCEPT !.script.pc = "loop", !.script.items = its,
                                !.script.linhas_csv = <<fieldnames>>]
  /\ UNCHANGED <<vars, loader, parsed, gen>>

\* evaluate_py.py:201-215 and evaluate_batch: one batch of max(1, parallelism)
\* items, gathered in item order
AmainBatch ==
  /\ run.script.pc = "loop"
  /\ run.script.i < Len(run.script.items)
  /\ LET p == Max(1, run.parallelism)
         at == run.script.i
         hi == Min(at + p, Len(run.script.items))
         outs == [j \in 1..(hi - at) |->
                    one(run.script.items[at + j], AnswerAt(at + j))]
         acertos == Cardinality({j \in 1..Len(outs) : outs[j][2]})
     IN run' = [run EXCEPT
                  !.script.linhas_csv =
                     @ \o [j \in 1..Len(outs) |-> outs[j][1]],
                  !.script.acertos_total = @ + acertos,
                  !.script.processed = @ + (hi - at),
                  !.script.i = at + p]
  /\ UNCHANGED <<vars, loader, parsed, gen>>

\* evaluate_py.py:217-228: the CSV is written
AmainSave ==
  /\ run.script.pc = "loop"
  /\ run.script.i >= Len(run.script.items)
  /\ run' = [run EXCEPT !.script.pc = "exit", !.script.exit = <<0>>,
                        !.script.csv = <<run.script.linhas_csv>>]
  /\ UNCHANGED <<vars, loader, parsed, gen>>

\* evaluate.py:118 and Evaluator.evaluate, lines 88-93
PipelineLoad ==
  /\ run.pipeline.pc = "load"
  /\ LET its == ApplyLimit(DatasetLoader_load_dataset(run.data), run.limit)
     IN run' = [run EXCEPT !.pipeline.items = its,
                           !.pipeline.pc = IF Len(its) = 0 THEN "report"
                                           ELSE "for"]
  /\ UNCHANGED <<vars, loader, parsed, gen>>

\* evaluator.py:56 with parallelism = 0: ValueError, caught by main
PipelineRangeError ==
  /\ run.pipeline.pc = "for"
  /\ run.parallelism = 0
  /\ run' = [run EXCEPT !.pipeline.pc = "exit", !.pipeline.exit = <<1>>]
  /\ UNCHANGED <<vars, loader, parsed, gen>>

\* evaluator.py:56-71: one chunk, gathered in item order
PipelineChunk ==
  /\ run.pipeline.pc = "for"
  /\ run.parallelism /= 0
  /\ InRange(run.pipeline.i, Len(run.pipeline.items), run.parallelism)
  /\ LET at == run.pipeline.i
         hi == Min(at + run.parallelism, Len(run.pipeline.items))
     IN run' = [run EXCEPT
                  !.pipeline.results =
                     @ \o [j \in 1..(hi - at) |->
                             evaluate_single(run.pipeline.items[at + j],
                                             AnswerAt(at + j))],
                  !.pipeline.i = at + run.parallelism]
  /\ UNCHANGED <<vars, loader, parsed, gen>>

\* evaluator.py:73
PipelineReturn ==
  /\ run.pipeline.pc = "for"
  /\ run.parallelism /= 0
  /\ ~InRange(run.pipeline.i, Len(run.pipeline.items), run.parallelism)
  /\ run' = [run EXCEPT !.pipeline.pc = "report"]
  /\ UNCHANGED <<vars, loader, parsed, gen>>

\* evaluate.py:138-149: add_results, save_csv, print_summary
PipelineReport ==
  /\ run.pipeline.pc = "report"
  /\ run' = [run EXCEPT
               !.pipeline.pc = "exit", !.pipeline.exit = <<0>>,
               !.pipeline.csv = csv_file(run.pipeline.results),
               !.pipeline.acertos =
                  calculate_metrics(run.pipeline.results).acertos]
  /\ UNCHANGED <<vars, loader, parsed, gen>>

ScriptNext ==
  \/ AmainLoad
  \/ AmainBatch
  \/ AmainSave
  \/ PipelineLoad
  \/ PipelineRangeError
  \/ PipelineChunk
  \/ PipelineReturn
  \/ PipelineReport

SpecScript == ScriptInit /\ [][ScriptNext]_<<vars, others>>

(***************************************************************************)
(* C29. For the same dataset, the same provider answers and failures, a    *)
(* parallelism of at least 1 and a limit that is absent or positive, the   *)
(* script of evaluate_py.py and the pipeline of evaluate.py give the same  *)
(* sequence of CSV rows and the same number of correct answers.            *)
(***************************************************************************)
\* a row dict as csv.DictWriter writes it: the values in fieldnames order
RowValues(row) == [f \in 1..Len(fieldnames) |-> row[fieldnames[f]]]

\* the lines of a CSV file the pipeline wrote, header first; none if no file
PipelineLines(file) ==
  IF file = <<>> THEN <<>>
  ELSE <<file[1].header>>
         \o [j \in 1..Len(file[1].rows) |-> RowValues(file[1].rows[j])]

\* the lines of the CSV file the script wrote; none if no file
ScriptLines(file) == IF file = <<>> THEN <<>> ELSE file[1]

BothEnded == run.script.pc = "exit" /\ run.pipeline.pc = "exit"

C29_PipelinesAgree ==
  (/\ run.entry = "script"
   /\ BothEnded
   /\ run.parallelism >= 1
   /\ run.limit = NoInt \/ run.limit[1] > 0) =>
     /\ ScriptLines(run.script.csv) = PipelineLines(run.pipeline.csv)
     /\ run.script.acertos_total = run.pipeline.acertos

\* four items in chunks of two under no limit: a right verdict on the second
\* line of a response, a right verdict, a failed call and a response without
\* a verdict word
C29_Witness ==
  /\ run.entry = "script"
  /\ BothEnded
  /\ run.parallelism = 2
  /\ run.limit = NoInt
  /\ Len(ScriptLines(run.script.csv)) = 5
  /\ run.script.acertos_total = 2
  /\ run.pipeline.acertos = 2
  /\ \E k \in 1..Len(run.pipeline.results) :
       IsCallFailure(run.pipeline.results[k])
  /\ \E k \in 1..Len(run.pipeline.results) :
       HasNewline(run.pipeline.results[k].resposta_bruta)

====
